---- MODULE Spec2Model ----
(***************************************************************************)
(* roiorbison: a bridge from an ROI XML-over-TCP feed to an MQTT topic.    *)
(*                                                                         *)
(* The specifications of this module share one Init.                       *)
(*   Spec          the ROI protocol state machine (roimachine.py) driven   *)
(*                 by automaton's FiniteRunner, with its Messenger and     *)
(*                 Templaters, over any number of sessions of one          *)
(*                 ROIMachine object.                                      *)
(*   SpecForwarder the MQTT forwarder (mqttforwarder.py): the retained     *)
(*                 message probe, the connect and disconnect callbacks     *)
(*                 and the two publishing loops.                           *)
(*   SpecDelivery  SpecForwarder with the teardown of a TCP session        *)
(*                 marking the elements still on the forwarder's queue.    *)
(*   SpecManager   the supervisor (roimanager.py): connect, start the      *)
(*                 workers, wait for a problem, clean up, sleep.           *)
(*   SpecTeardown  SpecManager with the forwarder running beside it.       *)
(*   SpecParser    the reader and the decoder (xmlparser.py) of a TCP      *)
(*                 session.                                                *)
(*   SpecWorkers   the reader, the decoder and the writer of a TCP session *)
(*                 with the sentinels the clean-up puts on their queues.   *)
(*   SpecRetriever the probe of the retained message                       *)
(*                 (mqttretainedretriever.py) and the forwarder after it.  *)
(***************************************************************************)
EXTENDS Integers, Sequences, FiniteSets, TLC

(***************************************************************************)
(* Bounds of the model.                                                    *)
(***************************************************************************)
\* Number of sessions (calls of ROIMachine.run) on the one ROIMachine.
MaxSessions == 2
\* Number of elements the producer puts on the machine's input queue in one
\* session.
MaxElems == 3
\* Number of items waiting on the machine's input queue.
MaxQueue == 1
\* Number of elements the decoder puts on the forwarder's queue.
MaxForward == 3
\* Number of TCP sessions the supervisor opens while the forwarder runs.
MaxTcpSessions == 2
\* Number of times ROIManager.run calls _connect.
MaxConnects == 2
\* Number of lines the reader reads from the socket.
MaxLines == 3
\* Number of messages the broker delivers to the probe.
MaxMessages == 1
\* Number of times the probe loses its connection to the broker.
MaxLosses == 1

(***************************************************************************)
(* Element names, roimachine.py lines 15-20.                               *)
(***************************************************************************)
ROI_ROOT_NAME == "{http://www.pubtrans.com/ROI/3.0}FromPubTransMessages"
ROI_LAST_PROCESSED_NAME == "LastProcessedMessageRequest"
ROI_SUBSCRIPTION_RESUME_RESPONSE_NAME == "SubscriptionResumeResponse"
ROI_SUBSCRIPTION_RESPONSE_NAME == "SubscriptionResponse"
ROI_SUBSCRIPTION_ERROR_REPORT_NAME == "SubscriptionErrorReport"
ROI_SUBSCRIPTION_ERROR_RESPONSE_NAME == "SubscriptionErrorResponse"

\* Python's None, as the value of an attribute an element does not carry
\* (Element.get returns None) and of a template key that is not given.
None == "None"

\* The sentinel of the package's poisonpill module.
POISON_PILL == [tag |-> "POISON_PILL", MessageId |-> None, Code |-> None]

\* An inbound element as the machine reads it: its tag and the two
\* attributes the reactions look at.
Element(tag, mid, code) == [tag |-> tag, MessageId |-> mid, Code |-> code]

\* The elements the producer of the input queue may put.
Elements ==
    { Element(ROI_ROOT_NAME, None, None),
      Element(ROI_LAST_PROCESSED_NAME, "a", None),
      Element(ROI_LAST_PROCESSED_NAME, "b", None),
      Element(ROI_SUBSCRIPTION_RESUME_RESPONSE_NAME, None, None),
      Element(ROI_SUBSCRIPTION_RESPONSE_NAME, None, None),
      Element(ROI_SUBSCRIPTION_ERROR_REPORT_NAME, None, "122"),
      Element(ROI_SUBSCRIPTION_ERROR_REPORT_NAME, None, "200"),
      Element(ROI_SUBSCRIPTION_ERROR_RESPONSE_NAME, None, "200"),
      Element("Other", None, None) }

VARIABLES
    \* ROIMachine and the FiniteRunner driving it
    current_state,        \* FiniteMachine.current_state
    old_state,            \* the state left by the last transition
    event,                \* the event processed last
    runner,               \* "idle", "running", "returned" or "raised"
    should_resume,        \* ROIMachine._should_resume
    on_message_id,        \* ROIMachine._on_message_id
    xml_in_queue,         \* ROIMachine._input_queue
    bytes_out_queue,      \* Messenger._output_queue
    message_id_counter,   \* the generator of _create_message_id_generator
    \* the sessions around the machine
    session,              \* number of calls of ROIMachine.run so far
    puts,                 \* elements put on the input queue in this session
    pill_put,             \* the clean-up has put POISON_PILL on the queue
    events,               \* the events processed in this session, in order
    prev_events,          \* the events processed in the session before
    retired_ids,          \* message ids of the payloads of earlier sessions
    \* MQTTForwarder, its MQTT client and the two events of main()
    is_mqtt_connected,    \* threading.Event, set or not
    is_mqtt_disconnected, \* threading.Event, set or not
    callback,             \* the statement the client's network thread is at
    mqtt_client,          \* the connection of the forwarder's MQTT client
    forwarder,            \* the statement MQTTForwarder.run is at
    retained_message,     \* MQTTRetainedRetriever._retained_message
    is_root_start_tag_published,
    xml_forward_queue,    \* MQTTForwarder._queue
    published,            \* the calls of client.publish, in order
    tcp_session,          \* the supervisor has a TCP session open
    tcp_sessions,         \* number of TCP sessions opened so far
    forward_puts,         \* elements put on xml_forward_queue so far
    roots_forwarded,      \* root elements among them
    stale_forwarded,      \* number of items at the head of xml_forward_queue
                          \* decoded in a TCP session already being torn down
    \* ROIManager
    manager,              \* the statement ROIManager.run is at
    connects,             \* number of calls of _connect so far
    bytes_in_queue,       \* ROIManager._bytes_in_queue
    writer,               \* ROIManager._writer
    socket,               \* the TCP socket of the last connection
    futures,              \* the five attributes _mqtt_disconnects_fut ..
                          \* _roi_machine_fut
    \* the reader and the decoder of a TCP session
    reader,               \* the statement _keep_reading is at
    inbound,              \* the lines read from the socket so far
    parser,               \* the statement XMLParser.keep_parsing is at
    writing,              \* the statement _keep_writing is at
    written,              \* what _keep_writing has written to the socket
    \* MQTTRetainedRetriever and its MQTT client
    retriever,            \* where MQTTRetainedRetriever.run and its client are
    timer,                \* MQTTRetainedRetriever._timer
    orphan_timers,        \* started timers _timer no longer refers to
    is_message_handled,   \* MQTTRetainedRetriever._is_message_handled
    unsubscribing,        \* an UNSUBSCRIBE of the probe is in flight
    messages,             \* number of calls of _cb_on_message so far
    losses                \* number of losses of the probe's connection so far

machine_vars ==
    << current_state, old_state, event, runner, should_resume, on_message_id,
       xml_in_queue, bytes_out_queue, message_id_counter, session, puts,
       pill_put, events, prev_events, retired_ids >>

forwarder_vars ==
    << is_mqtt_connected, is_mqtt_disconnected, callback, mqtt_client,
       forwarder, retained_message, is_root_start_tag_published,
       xml_forward_queue, published, tcp_session, tcp_sessions, forward_puts,
       roots_forwarded, stale_forwarded >>

manager_vars == << manager, connects, bytes_in_queue, writer, socket, futures >>

\* The variables that belong neither to the machine nor to the forwarder.
parser_vars == << reader, inbound, parser, writing, written >>

retriever_vars ==
    << retriever, timer, orphan_timers, is_message_handled, unsubscribing,
       messages, losses >>

other_vars == << manager_vars, parser_vars, retriever_vars >>

vars == << machine_vars, forwarder_vars, other_vars >>

(***************************************************************************)
(* ROIMachine._ROI_STATE_SPACE: for each state, the events it accepts and  *)
(* the state each leads to.                                                *)
(***************************************************************************)
ROI_STATE_SPACE ==
    [ ready_to_start |-> [ start |-> "own_root_tag" ],
      own_root_tag |-> [ sent_own_root_start_tag |-> "remote_root_tag" ],
      remote_root_tag |->
          [ got_remote_root_start_tag |-> "subscription_choice",
            got_unexpected_element |-> "closing",
            got_poison_pill |-> "closing" ],
      subscription_choice |->
          [ chose_to_resume |-> "resuming_attempt",
            chose_to_subscribe |-> "subscribing_attempt" ],
      resuming_attempt |-> [ sent_resuming_element |-> "resuming_response" ],
      subscribing_attempt |->
          [ sent_subscribing_element |-> "subscribing_response" ],
      resuming_response |->
          [ got_last_processed_request |-> "last_processed",
            got_resuming_ok |-> "listening",
            got_too_old_but_perhaps_resuming_ok |-> "resuming_response",
            got_resuming_failed |-> "closing",
            got_unexpected_element |-> "closing",
            got_poison_pill |-> "closing" ],
      subscribing_response |->
          [ got_last_processed_request |-> "last_processed",
            got_subscribing_ok |-> "listening",
            got_subscribing_failed |-> "closing",
            got_unexpected_element |-> "closing",
            got_poison_pill |-> "closing" ],
      last_processed |->
          [ sent_lp_response_return_listening |-> "listening",
            sent_lp_response_return_subscribing |-> "subscribing_response",
            sent_lp_response_return_resuming |-> "resuming_response" ],
      listening |->
          [ got_last_processed_request |-> "last_processed",
            got_remote_root_end_tag |-> "closing",
            got_other_element |-> "listening",
            got_poison_pill |-> "closing" ],
      closing |-> [ sent_own_root_end_tag |-> "closed" ],
      closed |-> << >> ]

States == DOMAIN ROI_STATE_SPACE

\* 'is_terminal': True
TerminalStates == { "closed" }

\* m.default_start_state
default_start_state == "ready_to_start"

(***************************************************************************)
(* The reactions ROIMachine._create_machine registers with add_reaction:   *)
(* <<state, event>> |-> the callback run after entering state by event.    *)
(***************************************************************************)
Reactions ==
    ( << "listening", "sent_lp_response_return_listening" >>
          :> "_react_in_listening" ) @@
    ( << "resuming_response", "sent_lp_response_return_resuming" >>
          :> "_react_in_resuming_response" ) @@
    ( << "subscribing_response", "sent_lp_response_return_subscribing" >>
          :> "_react_in_subscribing_response" ) @@
    ( << "last_processed", "got_last_processed_request" >>
          :> "_react_in_last_processed" ) @@
    ( << "listening", "got_other_element" >> :> "_react_in_listening" ) @@
    ( << "closing", "got_remote_root_end_tag" >> :> "_react_in_closing" ) @@
    ( << "remote_root_tag", "sent_own_root_start_tag" >>
          :> "_react_in_remote_root_tag" ) @@
    ( << "own_root_tag", "start" >> :> "_react_in_own_root_tag" ) @@
    ( << "subscription_choice", "got_remote_root_start_tag" >>
          :> "_react_in_subscription_choice" ) @@
    ( << "closing", "got_unexpected_element" >> :> "_react_in_closing" ) @@
    ( << "resuming_response", "sent_resuming_element" >>
          :> "_react_in_resuming_response" ) @@
    ( << "closing", "got_resuming_failed" >> :> "_react_in_closing" ) @@
    ( << "listening", "got_resuming_ok" >> :> "_react_in_listening" ) @@
    ( << "resuming_response", "got_too_old_but_perhaps_resuming_ok" >>
          :> "_react_in_resuming_response" ) @@
    ( << "subscribing_response", "sent_subscribing_element" >>
          :> "_react_in_subscribing_response" ) @@
    ( << "closing", "got_subscribing_failed" >> :> "_react_in_closing" ) @@
    ( << "listening", "got_subscribing_ok" >> :> "_react_in_listening" ) @@
    ( << "resuming_attempt", "chose_to_resume" >>
          :> "_react_in_resuming_attempt" ) @@
    ( << "subscribing_attempt", "chose_to_subscribe" >>
          :> "_react_in_subscribing_attempt" )

\* The callback the runner is about to call (or is blocked in).
Callback ==
    IF runner = "running" /\ << current_state, event >> \in DOMAIN Reactions
    THEN Reactions[<< current_state, event >>]
    ELSE None

(***************************************************************************)
(* FiniteRunner.run_iter, one turn of its loop for the event ev a reaction *)
(* returned: FiniteMachine.process_event(ev), then the look-up of the next *)
(* reaction.  An event the current state does not accept raises NotFound   *)
(* before the transition; a new state that is not terminal and has no      *)
(* reaction for ev raises NotFound after it.                               *)
(***************************************************************************)
Process(from, ev) ==
    /\ event' = ev
    /\ IF ev \notin DOMAIN ROI_STATE_SPACE[from]
       THEN /\ runner' = "raised"
            /\ current_state' = from
            /\ UNCHANGED old_state
       ELSE LET new == ROI_STATE_SPACE[from][ev]
            IN  /\ current_state' = new
                /\ old_state' = from
                /\ runner' = IF new \in TerminalStates THEN "returned"
                             ELSE IF << new, ev >> \in DOMAIN Reactions
                                  THEN "running"
                                  ELSE "raised"

\* The turn of the loop that follows a reaction returning ev.
Advance(ev) ==
    /\ Process(current_state, ev)
    /\ events' = Append(events, ev)

(***************************************************************************)
(* Templater.fill and Messenger._send.                                     *)
(***************************************************************************)
\* A generator that yields the same value again.
SameMessageId(counter) == counter

\* _create_message_id_generator: the value after the one just yielded.
NextMessageId(counter) == counter + 1

\* Templater.fill: the template of the Templater, filled with the extra
\* mapping and with the message id drawn from the shared generator.
Fill(template, extra, id) ==
    [ template |-> template,
      message_id |-> id,
      on_message_id |-> extra.on_message_id,
      last_processed_message_id |-> extra.last_processed_message_id ]

NoExtra == [ on_message_id |-> None, last_processed_message_id |-> None ]

\* Messenger._send: fill the picked template and put it on the output queue.
Send(template, extra) ==
    /\ bytes_out_queue' =
           Append(bytes_out_queue, Fill(template, extra, message_id_counter))
    /\ message_id_counter' = NextMessageId(message_id_counter)

MachineInit ==
    /\ current_state = None
    /\ old_state = None
    /\ event = None
    /\ runner = "idle"
    /\ should_resume = TRUE
    /\ on_message_id = None
    /\ xml_in_queue = << >>
    /\ bytes_out_queue = << >>
    /\ message_id_counter = 0
    /\ session = 0
    /\ puts = 0
    /\ pill_put = FALSE
    /\ events = << >>
    /\ prev_events = << >>
    /\ retired_ids = << >>

(***************************************************************************)
(* The decisions of the reactions, as the code takes them.                 *)
(***************************************************************************)
\* A reaction that takes any element for the remote root start tag.
RemoteRootTagEventAnyElement(received) ==
    IF received = POISON_PILL THEN "got_poison_pill"
    ELSE "got_remote_root_start_tag"

\* _react_in_remote_root_tag
RemoteRootTagEvent(received) ==
    IF received = POISON_PILL THEN "got_poison_pill"
    ELSE IF received.tag = ROI_ROOT_NAME THEN "got_remote_root_start_tag"
    ELSE "got_unexpected_element"

\* A reaction that chooses to resume whatever _should_resume is.
SubscriptionChoiceEventAlwaysResume(resume) == "chose_to_resume"

\* _react_in_subscription_choice
SubscriptionChoiceEvent(resume) ==
    IF resume THEN "chose_to_resume" ELSE "chose_to_subscribe"

\* _react_in_resuming_attempt
ResumingAttemptEvent == "sent_resuming_element"

\* _react_in_subscribing_attempt
SubscribingAttemptEvent == "sent_resuming_element"

\* A reaction that takes every SubscriptionErrorReport for a failed resume,
\* whatever its Code.
ResumingResponseEventAnyCode(received) ==
    IF received = POISON_PILL THEN "got_poison_pill"
    ELSE IF received.tag = ROI_SUBSCRIPTION_RESUME_RESPONSE_NAME
         THEN "got_resuming_ok"
    ELSE IF received.tag = ROI_LAST_PROCESSED_NAME
         THEN "got_last_processed_request"
    ELSE IF received.tag \in { ROI_SUBSCRIPTION_ERROR_REPORT_NAME,
                              ROI_SUBSCRIPTION_ERROR_RESPONSE_NAME }
         THEN "got_resuming_failed"
    ELSE "got_unexpected_element"

\* _react_in_resuming_response: the event returned
ResumingResponseEvent(received) ==
    IF received = POISON_PILL THEN "got_poison_pill"
    ELSE IF received.tag = ROI_SUBSCRIPTION_RESUME_RESPONSE_NAME
         THEN "got_resuming_ok"
    ELSE IF received.tag = ROI_LAST_PROCESSED_NAME
         THEN "got_last_processed_request"
    ELSE IF received.tag = ROI_SUBSCRIPTION_ERROR_REPORT_NAME
         THEN IF received.Code = "122"
              THEN "got_too_old_but_perhaps_resuming_ok"
              ELSE "got_resuming_failed"
    ELSE IF received.tag = ROI_SUBSCRIPTION_ERROR_RESPONSE_NAME
         THEN "got_resuming_failed"
    ELSE "got_unexpected_element"

\* A reaction that clears _should_resume on a SubscriptionResumeResponse
\* too.
ResumingResponseClearsOnOk(received, resume) ==
    IF received = POISON_PILL THEN resume
    ELSE IF received.tag \in { ROI_SUBSCRIPTION_RESUME_RESPONSE_NAME,
                              ROI_SUBSCRIPTION_ERROR_RESPONSE_NAME }
         THEN FALSE
    ELSE IF received.tag = ROI_SUBSCRIPTION_ERROR_REPORT_NAME
            /\ received.Code # "122"
         THEN FALSE
    ELSE resume

\* A reaction that clears _should_resume on any element but the sentinel.
ResumingResponseClearsResume(received, resume) ==
    IF received = POISON_PILL THEN resume ELSE FALSE

\* A reaction that forgets to clear _should_resume.
ResumingResponseKeepsResume(received, resume) == resume

\* _react_in_resuming_response: _should_resume after it, resume before it
ResumingResponseShouldResume(received, resume) ==
    IF received = POISON_PILL THEN resume
    ELSE IF received.tag = ROI_SUBSCRIPTION_ERROR_REPORT_NAME
            /\ received.Code # "122"
         THEN FALSE
    ELSE IF received.tag = ROI_SUBSCRIPTION_ERROR_RESPONSE_NAME THEN FALSE
    ELSE resume

\* _react_in_subscribing_response: the event returned
SubscribingResponseEvent(received) ==
    IF received = POISON_PILL THEN "got_poison_pill"
    ELSE IF received.tag = ROI_SUBSCRIPTION_RESPONSE_NAME
         THEN "got_subscribing_ok"
    ELSE IF received.tag = ROI_LAST_PROCESSED_NAME
         THEN "got_last_processed_request"
    ELSE IF received.tag \in { ROI_SUBSCRIPTION_ERROR_REPORT_NAME,
                              ROI_SUBSCRIPTION_ERROR_RESPONSE_NAME }
         THEN "got_subscribing_failed"
    ELSE "got_unexpected_element"

\* _react_in_subscribing_response: _should_resume after it
SubscribingResponseShouldResume(received, resume) ==
    IF received = POISON_PILL THEN resume
    ELSE IF received.tag = ROI_LAST_PROCESSED_NAME THEN resume
    ELSE TRUE

\* A reaction that always returns to listening.
LastProcessedEventToListening(old) == "sent_lp_response_return_listening"

\* _react_in_last_processed: the event returned, by the state it came from
LastProcessedEvent(old) ==
    IF old = "listening" THEN "sent_lp_response_return_listening"
    ELSE IF old = "resuming_response" THEN "sent_lp_response_return_resuming"
    ELSE "sent_lp_response_return_subscribing"

\* _react_in_last_processed: the two keys given to send_last_processed
LastProcessedMapping(id) ==
    [ on_message_id |-> id, last_processed_message_id |-> id ]

\* A reaction that takes the root element for any other element.
ListeningEventIgnoresRoot(received) ==
    IF received = POISON_PILL THEN "got_poison_pill"
    ELSE IF received.tag = ROI_LAST_PROCESSED_NAME
         THEN "got_last_processed_request"
    ELSE "got_other_element"

\* _react_in_listening
ListeningEvent(received) ==
    IF received = POISON_PILL THEN "got_poison_pill"
    ELSE IF received.tag = ROI_LAST_PROCESSED_NAME
         THEN "got_last_processed_request"
    ELSE IF received.tag = ROI_ROOT_NAME THEN "got_remote_root_end_tag"
    ELSE "got_other_element"

\* A reaction that does not memoize the MessageId of the request.
MessageIdNotMemoized(received, id) == id

\* self._on_message_id = received.get('MessageId'), in the three reactions
\* that read a LastProcessedMessageRequest
MemoizedMessageId(received, id) ==
    IF received # POISON_PILL /\ received.tag = ROI_LAST_PROCESSED_NAME
    THEN received.MessageId
    ELSE id

\* _react_in_closing
ClosingEvent == "sent_own_root_end_tag"

(***************************************************************************)
(* The reactions.  Each action is one call of the callback by the runner   *)
(* followed by the runner's processing of the event the callback returned. *)
(* A callback that reads the input queue blocks while the queue is empty.  *)
(***************************************************************************)
session_vars ==
    << session, puts, pill_put, prev_events, retired_ids, forwarder_vars, other_vars >>

react_in_own_root_tag ==
    /\ Callback = "_react_in_own_root_tag"
    /\ Send("own_root_start_tag", NoExtra)
    /\ Advance("sent_own_root_start_tag")
    /\ UNCHANGED << should_resume, on_message_id, xml_in_queue, session_vars >>

react_in_remote_root_tag ==
    /\ Callback = "_react_in_remote_root_tag"
    /\ xml_in_queue # << >>
    /\ xml_in_queue' = Tail(xml_in_queue)
    /\ Advance(RemoteRootTagEvent(Head(xml_in_queue)))
    /\ UNCHANGED << should_resume, on_message_id, bytes_out_queue,
                    message_id_counter, session_vars >>

react_in_subscription_choice ==
    /\ Callback = "_react_in_subscription_choice"
    /\ Advance(SubscriptionChoiceEvent(should_resume))
    /\ UNCHANGED << should_resume, on_message_id, xml_in_queue,
                    bytes_out_queue, message_id_counter, session_vars >>

react_in_resuming_attempt ==
    /\ Callback = "_react_in_resuming_attempt"
    /\ Send("resume_subscription", NoExtra)
    /\ Advance(ResumingAttemptEvent)
    /\ UNCHANGED << should_resume, on_message_id, xml_in_queue, session_vars >>

react_in_subscribing_attempt ==
    /\ Callback = "_react_in_subscribing_attempt"
    /\ Send("subscribe", NoExtra)
    /\ Advance(SubscribingAttemptEvent)
    /\ UNCHANGED << should_resume, on_message_id, xml_in_queue, session_vars >>

react_in_resuming_response ==
    /\ Callback = "_react_in_resuming_response"
    /\ xml_in_queue # << >>
    /\ xml_in_queue' = Tail(xml_in_queue)
    /\ on_message_id' = MemoizedMessageId(Head(xml_in_queue), on_message_id)
    /\ should_resume' =
           ResumingResponseShouldResume(Head(xml_in_queue), should_resume)
    /\ Advance(ResumingResponseEvent(Head(xml_in_queue)))
    /\ UNCHANGED << bytes_out_queue, message_id_counter, session_vars >>

react_in_subscribing_response ==
    /\ Callback = "_react_in_subscribing_response"
    /\ xml_in_queue # << >>
    /\ xml_in_queue' = Tail(xml_in_queue)
    /\ on_message_id' = MemoizedMessageId(Head(xml_in_queue), on_message_id)
    /\ should_resume' =
           SubscribingResponseShouldResume(Head(xml_in_queue), should_resume)
    /\ Advance(SubscribingResponseEvent(Head(xml_in_queue)))
    /\ UNCHANGED << bytes_out_queue, message_id_counter, session_vars >>

react_in_last_processed ==
    /\ Callback = "_react_in_last_processed"
    /\ Send("last_processed", LastProcessedMapping(on_message_id))
    /\ Advance(LastProcessedEvent(old_state))
    /\ UNCHANGED << should_resume, on_message_id, xml_in_queue, session_vars >>

react_in_listening ==
    /\ Callback = "_react_in_listening"
    /\ xml_in_queue # << >>
    /\ xml_in_queue' = Tail(xml_in_queue)
    /\ on_message_id' = MemoizedMessageId(Head(xml_in_queue), on_message_id)
    /\ Advance(ListeningEvent(Head(xml_in_queue)))
    /\ UNCHANGED << should_resume, bytes_out_queue, message_id_counter,
                    session_vars >>

react_in_closing ==
    /\ Callback = "_react_in_closing"
    /\ Send("own_root_end_tag", NoExtra)
    /\ Advance(ClosingEvent)
    /\ UNCHANGED << should_resume, on_message_id, xml_in_queue, session_vars >>

(***************************************************************************)
(* The owner of the machine.  ROIMachine.run starts a session: the runner  *)
(* initializes the machine and processes 'start'.  While a session lasts   *)
(* the producer of the input queue puts elements; the clean-up puts the    *)
(* sentinel, waits for the run to end and empties the queues.              *)
(***************************************************************************)
run ==
    /\ runner = "idle"
    /\ session < MaxSessions
    /\ session' = session + 1
    /\ Process(default_start_state, "start")
    /\ events' = << "start" >>
    /\ prev_events' = events
    /\ UNCHANGED << should_resume, on_message_id, xml_in_queue,
                    bytes_out_queue, message_id_counter, puts, pill_put,
                    retired_ids, forwarder_vars, other_vars >>

put_element(element) ==
    /\ runner = "running"
    /\ ~pill_put
    /\ puts < MaxElems
    /\ Len(xml_in_queue) < MaxQueue
    /\ xml_in_queue' = Append(xml_in_queue, element)
    /\ puts' = puts + 1
    /\ UNCHANGED << current_state, old_state, event, runner, should_resume,
                    on_message_id, bytes_out_queue, message_id_counter,
                    session, pill_put, events, prev_events, retired_ids,
                    forwarder_vars, other_vars >>

put_poison_pill ==
    /\ runner # "idle"
    /\ ~pill_put
    /\ xml_in_queue' = Append(xml_in_queue, POISON_PILL)
    /\ pill_put' = TRUE
    /\ UNCHANGED << current_state, old_state, event, runner, should_resume,
                    on_message_id, bytes_out_queue, message_id_counter,
                    session, puts, events, prev_events, retired_ids,
                    forwarder_vars, other_vars >>

MessageIds(payloads) == [ i \in DOMAIN payloads |-> payloads[i].message_id ]

empty_queues ==
    /\ runner \in { "returned", "raised" }
    /\ pill_put
    /\ xml_in_queue' = << >>
    /\ bytes_out_queue' = << >>
    /\ retired_ids' = retired_ids \o MessageIds(bytes_out_queue)
    /\ runner' = "idle"
    /\ puts' = 0
    /\ pill_put' = FALSE
    /\ UNCHANGED << current_state, old_state, event, should_resume,
                    on_message_id, message_id_counter, session, events,
                    prev_events, forwarder_vars, other_vars >>

(***************************************************************************)
(* MQTT forwarder, mqttforwarder.py.                                        *)
(*                                                                         *)
(* Bytes of serialized XML are sequences of tokens: a start tag, an end    *)
(* tag or an empty-element tag, each with the prefix and the qualified     *)
(* name it carries, a run of text, or a run of white space.                *)
(***************************************************************************)
Token(kind, prefix, name) == [ kind |-> kind, prefix |-> prefix, name |-> name ]
TEXT == Token("text", "", "")
SPACE == Token("space", "", "")

\* An element on xml_forward_queue: its qualified tag, the prefix its
\* namespace is bound to, whether it has text or children, and whether white
\* space follows it (its tail).
ForwardElement(tag, prefix, content, tail) ==
    [ tag |-> tag, prefix |-> prefix, content |-> content, tail |-> tail ]

ForwardElements ==
    { ForwardElement(ROI_ROOT_NAME, prefix, content, tail) :
          prefix \in { "ROI", "ns0" }, content \in BOOLEAN, tail \in BOOLEAN }
    \cup { ForwardElement("Other", "ROI", TRUE, FALSE) }

\* etree.tostring(element, encoding='utf-8'): an element without content is
\* written as an empty-element tag; the tail is written after the element.
tostring(element) ==
    ( IF element.content
      THEN << Token("start", element.prefix, element.tag), TEXT,
              Token("end", element.prefix, element.tag) >>
      ELSE << Token("empty", element.prefix, element.tag) >> )
    \o ( IF element.tail THEN << SPACE >> ELSE << >> )

\* bytes.rstrip()
RECURSIVE RStrip(_)
RStrip(out) ==
    IF out # << >> /\ out[Len(out)] = SPACE
    THEN RStrip(SubSeq(out, 1, Len(out) - 1))
    ELSE out

\* END_TAG = b'</ROI:FromPubTransMessages>'
END_TAG == Token("end", "ROI", ROI_ROOT_NAME)

\* bytes.endswith
EndsWith(out, tag) == out # << >> /\ out[Len(out)] = tag

\* _serialize
Serialize(element, is_root_tag) ==
    IF is_root_tag
    THEN LET out == RStrip(tostring(element))
         IN  IF EndsWith(out, END_TAG)
             THEN SubSeq(out, 1, Len(out) - 1)
             ELSE out
    ELSE tostring(element)

\* What the probe of the retained message returns: None or a payload.
NoMessage == [ present |-> FALSE, payload |-> << >> ]
Message(payload) == [ present |-> TRUE, payload |-> payload ]

ProbeResults ==
    { NoMessage,
      Message(<< Token("start", "ROI", ROI_ROOT_NAME) >>),
      Message(<< Token("empty", "ns0", ROI_ROOT_NAME) >>),
      Message(<< Token("start", "ROI", "Other"), TEXT,
                 Token("end", "ROI", "Other") >>),
      Message(<< TEXT >>) }

\* XMLPullParser.feed raises on bytes that do not begin an XML document.
FeedRaises(payload) ==
    payload # << >> /\ payload[1].kind \notin { "start", "empty", "space" }

\* The tag of the first 'start' event of the payload, None without one.
RECURSIVE FirstStartTag(_)
FirstStartTag(payload) ==
    IF payload = << >> THEN None
    ELSE IF payload[1].kind \in { "start", "empty" } THEN payload[1].name
    ELSE FirstStartTag(Tail(payload))

\* A _check_root_start_tag that takes any message for the root start tag.
CheckRootStartTagAnyMessage(message, flag) ==
    IF message.present THEN TRUE ELSE flag

\* _check_root_start_tag: _is_root_start_tag_published after it
CheckRootStartTag(message, flag) ==
    IF message.present /\ FirstStartTag(message.payload) = ROI_ROOT_NAME
    THEN TRUE
    ELSE flag

\* A loop that forgets to mark the root start tag published.
RootNotMarkedPublished == FALSE

\* _publish_root: _is_root_start_tag_published once wait_for_publish returned
RootPublishedAfterWait == TRUE

\* A _signal_connect that sets is_mqtt_connected first.
SignalConnectSetFirst(connected, disconnected) == << TRUE, disconnected >>

\* _signal_connect, first and second statement, on the pair
\* <<is_mqtt_connected, is_mqtt_disconnected>>
SignalConnectFirst(connected, disconnected) == << connected, FALSE >>
SignalConnectSecond(connected, disconnected) == << TRUE, disconnected >>

\* A _signal_disconnect that sets is_mqtt_disconnected first.
SignalDisconnectSetFirst(connected, disconnected) == << connected, TRUE >>

\* _signal_disconnect, first and second statement
SignalDisconnectFirst(connected, disconnected) == << FALSE, disconnected >>
SignalDisconnectSecond(connected, disconnected) == << connected, TRUE >>

ForwarderInit ==
    /\ is_mqtt_connected = FALSE
    /\ is_mqtt_disconnected = TRUE
    /\ callback = None
    /\ mqtt_client = "new"
    /\ forwarder = "check_retained_message"
    /\ retained_message = NoMessage
    /\ is_root_start_tag_published = FALSE
    /\ xml_forward_queue = << >>
    /\ published = << >>
    /\ tcp_session = FALSE
    /\ tcp_sessions = 0
    /\ forward_puts = 0
    /\ roots_forwarded = 0
    /\ stale_forwarded = 0

\* MQTTForwarder.run up to its first wait: the probe returns message, the
\* root flag is decided, and the main client starts connecting.
check_retained_message(message) ==
    /\ forwarder = "check_retained_message"
    /\ retained_message' = message
    /\ IF message.present /\ FeedRaises(message.payload)
       THEN /\ forwarder' = "raised"
            /\ UNCHANGED << is_root_start_tag_published, mqtt_client >>
       ELSE /\ is_root_start_tag_published' =
                   CheckRootStartTag(message, is_root_start_tag_published)
            /\ mqtt_client' = "connecting"
            /\ forwarder' = "wait_for_event"
    /\ UNCHANGED << is_mqtt_connected, is_mqtt_disconnected, callback,
                    xml_forward_queue, published, tcp_session, tcp_sessions,
                    forward_puts, stale_forwarded, roots_forwarded, machine_vars, other_vars >>

\* await wait_for_event(is_mqtt_connected), then the loop test of
\* _publish_root
wait_for_connected ==
    /\ forwarder = "wait_for_event"
    /\ is_mqtt_connected
    /\ forwarder' = IF is_root_start_tag_published THEN "_keep_publishing"
                    ELSE "_publish_root"
    /\ UNCHANGED << is_mqtt_connected, is_mqtt_disconnected, callback,
                    mqtt_client, retained_message,
                    is_root_start_tag_published, xml_forward_queue, published,
                    tcp_session, tcp_sessions, forward_puts, stale_forwarded, roots_forwarded,
                    machine_vars, other_vars >>

\* _publish_root, one turn of its loop up to the wait for the publish
publish_root ==
    /\ forwarder = "_publish_root"
    /\ xml_forward_queue # << >>
    /\ xml_forward_queue' = Tail(xml_forward_queue)
    /\ stale_forwarded' = IF stale_forwarded > 0 THEN stale_forwarded - 1 ELSE 0
    /\ IF Head(xml_forward_queue).tag = ROI_ROOT_NAME
       THEN /\ published' =
                   Append(published,
                          [ payload |-> Serialize(Head(xml_forward_queue), TRUE),
                            retain |-> TRUE ])
            /\ forwarder' = "wait_for_publish"
       ELSE UNCHANGED << published, forwarder >>
    /\ UNCHANGED << is_mqtt_connected, is_mqtt_disconnected, callback,
                    mqtt_client, retained_message,
                    is_root_start_tag_published, tcp_session, tcp_sessions,
                    forward_puts, roots_forwarded, machine_vars, other_vars >>

\* _publish_root after info.wait_for_publish returned
wait_for_publish ==
    /\ forwarder = "wait_for_publish"
    /\ is_root_start_tag_published' = RootPublishedAfterWait
    /\ forwarder' = IF RootPublishedAfterWait THEN "_keep_publishing"
                    ELSE "_publish_root"
    /\ UNCHANGED << is_mqtt_connected, is_mqtt_disconnected, callback,
                    mqtt_client, retained_message, xml_forward_queue,
                    published, tcp_session, tcp_sessions, forward_puts, stale_forwarded,
                    roots_forwarded, machine_vars, other_vars >>

\* _keep_publishing, one turn of its loop
keep_publishing ==
    /\ forwarder = "_keep_publishing"
    /\ xml_forward_queue # << >>
    /\ xml_forward_queue' = Tail(xml_forward_queue)
    /\ stale_forwarded' = IF stale_forwarded > 0 THEN stale_forwarded - 1 ELSE 0
    /\ IF Head(xml_forward_queue).tag # ROI_ROOT_NAME
       THEN published' =
                Append(published,
                       [ payload |-> Serialize(Head(xml_forward_queue), FALSE),
                         retain |-> FALSE ])
       ELSE UNCHANGED published
    /\ UNCHANGED << is_mqtt_connected, is_mqtt_disconnected, callback,
                    mqtt_client, forwarder, retained_message,
                    is_root_start_tag_published, tcp_session, tcp_sessions,
                    forward_puts, roots_forwarded, machine_vars, other_vars >>

(***************************************************************************)
(* The callbacks of the forwarder's MQTT client.  They run on the client's *)
(* network thread, one at a time; each statement on an Event is a step of  *)
(* its own, since other threads wait on the Events meanwhile.              *)
(***************************************************************************)
\* _cb_on_connect with rc = 0: _signal_connect, first statement
signal_connect_clear ==
    /\ callback = None
    /\ mqtt_client = "connecting"
    /\ is_mqtt_connected' =
           SignalConnectFirst(is_mqtt_connected, is_mqtt_disconnected)[1]
    /\ is_mqtt_disconnected' =
           SignalConnectFirst(is_mqtt_connected, is_mqtt_disconnected)[2]
    /\ callback' = "_signal_connect"
    /\ UNCHANGED << mqtt_client, forwarder, retained_message,
                    is_root_start_tag_published, xml_forward_queue, published,
                    tcp_session, tcp_sessions, forward_puts, stale_forwarded, roots_forwarded,
                    machine_vars, other_vars >>

\* _signal_connect, second statement
signal_connect_set ==
    /\ callback = "_signal_connect"
    /\ is_mqtt_connected' =
           SignalConnectSecond(is_mqtt_connected, is_mqtt_disconnected)[1]
    /\ is_mqtt_disconnected' =
           SignalConnectSecond(is_mqtt_connected, is_mqtt_disconnected)[2]
    /\ callback' = None
    /\ mqtt_client' = "connected"
    /\ UNCHANGED << forwarder, retained_message, is_root_start_tag_published,
                    xml_forward_queue, published, tcp_session, tcp_sessions,
                    forward_puts, stale_forwarded, roots_forwarded, machine_vars, other_vars >>

\* _cb_on_connect with rc # 0: the broker refused, nothing is signalled
cb_on_connect_refused ==
    /\ callback = None
    /\ mqtt_client = "connecting"
    /\ mqtt_client' = "refused"
    /\ UNCHANGED << is_mqtt_connected, is_mqtt_disconnected, callback,
                    forwarder, retained_message, is_root_start_tag_published,
                    xml_forward_queue, published, tcp_session, tcp_sessions,
                    forward_puts, stale_forwarded, roots_forwarded, machine_vars, other_vars >>

\* _cb_on_disconnect, any rc: _signal_disconnect, first statement
signal_disconnect_clear ==
    /\ callback = None
    /\ mqtt_client \in { "connected", "refused" }
    /\ is_mqtt_connected' =
           SignalDisconnectFirst(is_mqtt_connected, is_mqtt_disconnected)[1]
    /\ is_mqtt_disconnected' =
           SignalDisconnectFirst(is_mqtt_connected, is_mqtt_disconnected)[2]
    /\ callback' = "_signal_disconnect"
    /\ UNCHANGED << mqtt_client, forwarder, retained_message,
                    is_root_start_tag_published, xml_forward_queue, published,
                    tcp_session, tcp_sessions, forward_puts, stale_forwarded, roots_forwarded,
                    machine_vars, other_vars >>

\* _signal_disconnect, second statement; the client then reconnects
signal_disconnect_set ==
    /\ callback = "_signal_disconnect"
    /\ is_mqtt_connected' =
           SignalDisconnectSecond(is_mqtt_connected, is_mqtt_disconnected)[1]
    /\ is_mqtt_disconnected' =
           SignalDisconnectSecond(is_mqtt_connected, is_mqtt_disconnected)[2]
    /\ callback' = None
    /\ mqtt_client' = "connecting"
    /\ UNCHANGED << forwarder, retained_message, is_root_start_tag_published,
                    xml_forward_queue, published, tcp_session, tcp_sessions,
                    forward_puts, stale_forwarded, roots_forwarded, machine_vars, other_vars >>

(***************************************************************************)
(* The supervisor and its decoder, as far as the forwarder sees them: a    *)
(* TCP session is opened once is_mqtt_connected is seen set, elements are  *)
(* put on xml_forward_queue while it lasts, and it ends at any moment.     *)
(***************************************************************************)
\* ROIManager.run: wait_for_event(is_mqtt_connected), then _connect
open_tcp_session ==
    /\ ~tcp_session
    /\ tcp_sessions < MaxTcpSessions
    /\ is_mqtt_connected
    /\ tcp_session' = TRUE
    /\ tcp_sessions' = tcp_sessions + 1
    /\ UNCHANGED << is_mqtt_connected, is_mqtt_disconnected, callback,
                    mqtt_client, forwarder, retained_message,
                    is_root_start_tag_published, xml_forward_queue, published,
                    forward_puts, stale_forwarded, roots_forwarded, machine_vars, other_vars >>

\* XMLParser._copy_into_queues: self._forward_queue.put
forward_put(element) ==
    /\ tcp_session
    /\ forward_puts < MaxForward
    /\ xml_forward_queue' = Append(xml_forward_queue, element)
    /\ forward_puts' = forward_puts + 1
    /\ roots_forwarded' =
           IF element.tag = ROI_ROOT_NAME THEN roots_forwarded + 1
           ELSE roots_forwarded
    /\ UNCHANGED << is_mqtt_connected, is_mqtt_disconnected, callback,
                    mqtt_client, forwarder, retained_message,
                    is_root_start_tag_published, published, tcp_session,
                    tcp_sessions, stale_forwarded, machine_vars, other_vars >>

\* ROIManager._clean_up ends the TCP session
close_tcp_session ==
    /\ tcp_session
    /\ tcp_session' = FALSE
    /\ UNCHANGED << is_mqtt_connected, is_mqtt_disconnected, callback,
                    mqtt_client, forwarder, retained_message,
                    is_root_start_tag_published, xml_forward_queue, published,
                    tcp_sessions, forward_puts, roots_forwarded,
                    stale_forwarded, machine_vars, other_vars >>

\* ROIManager._clean_up ends the TCP session, with the items now waiting on
\* xml_forward_queue counted as decoded in a session being torn down
begin_clean_up ==
    /\ tcp_session
    /\ tcp_session' = FALSE
    /\ stale_forwarded' = Len(xml_forward_queue)
    /\ UNCHANGED << is_mqtt_connected, is_mqtt_disconnected, callback,
                    mqtt_client, forwarder, retained_message,
                    is_root_start_tag_published, xml_forward_queue, published,
                    tcp_sessions, forward_puts, roots_forwarded,
                    machine_vars, other_vars >>

(***************************************************************************)
(* The connection supervisor, roimanager.py, with the helpers of util.py   *)
(* it calls.  ROIManager.run is one coroutine; each action below runs it   *)
(* from one suspension to the next.                                        *)
(***************************************************************************)
\* The methods class AsyncHelper defines.
AsyncHelperMethods ==
    { "__init__", "wait_until_first_done", "run_in_executor", "wait_for_event",
      "wait_forever" }

\* The five future attributes as __init__ sets them.
NoFutures ==
    [ mqtt_disconnects_fut |-> None, parsing_fut |-> None,
      reading_fut |-> None, writing_fut |-> None, roi_machine_fut |-> None ]

\* Future.cancel: a pending future becomes cancelled, another stays as it is.
Cancel(future) == IF future = "pending" THEN "cancelled" ELSE future

\* AsyncHelper.wait_forever(future), asyncio.wait_for without a timeout: it
\* returns once the future has a result, raises what the future raised
\* (CancelledError of a cancelled one), and blocks while it is pending.
WaitForever(future) ==
    IF future = "done" THEN "returns"
    ELSE IF future \in { "cancelled", "failed" } THEN "raises"
    ELSE "blocks"

\* `if fut is not None: await wait_forever(fut)`
AwaitIfSet(future) == IF future = None THEN "returns" ELSE WaitForever(future)

\* An _empty_queue that stops one item early.
empty_queue_but_last(queue_) ==
    IF queue_ = << >> THEN << >> ELSE << queue_[Len(queue_)] >>

\* An _empty_queue whose loop test never holds.
empty_queue_never(queue_) == queue_

\* _empty_asyncio_queue and _empty_queue: get until the queue is empty
empty_queue(queue_) == << >>

ManagerInit ==
    /\ manager = "wait_for_event"
    /\ connects = 0
    /\ bytes_in_queue = << >>
    /\ writer = None
    /\ socket = "none"
    /\ futures = NoFutures

\* A run that goes on to _connect without waiting for is_mqtt_connected.
run_without_wait ==
    /\ manager = "wait_for_event"
    /\ manager' = "_connect"
    /\ UNCHANGED << connects, bytes_in_queue, writer, socket, futures,
                    machine_vars, forwarder_vars, parser_vars,
                    retriever_vars >>

\* run: await wait_for_event(is_mqtt_connected)
run_wait_for_event ==
    /\ manager = "wait_for_event"
    /\ is_mqtt_connected
    /\ manager' = "_connect"
    /\ UNCHANGED << connects, bytes_in_queue, writer, socket, futures,
                    machine_vars, forwarder_vars, parser_vars,
                    retriever_vars >>

\* run: await _connect(); asyncio.open_connection returns the streams or
\* raises OSError, which run catches before it calls _clean_up
connect(connected) ==
    /\ manager = "_connect"
    /\ connects < MaxConnects
    /\ connects' = connects + 1
    /\ IF connected
       THEN /\ writer' = "StreamWriter"
            /\ socket' = "open"
            /\ manager' = "_set_futures_up"
       ELSE /\ manager' = "_clean_up"
            /\ UNCHANGED << writer, socket >>
    /\ UNCHANGED << bytes_in_queue, futures, machine_vars, forwarder_vars, parser_vars,
                    retriever_vars >>

\* run: await _set_futures_up(); its first statement looks ensure_future up
\* on the AsyncHelper, which has no such method: AttributeError, which is no
\* OSError, so it leaves run
set_futures_up ==
    /\ manager = "_set_futures_up"
    /\ "ensure_future" \notin AsyncHelperMethods
    /\ manager' = "raised"
    /\ UNCHANGED << connects, bytes_in_queue, writer, socket, futures,
                    machine_vars, forwarder_vars, parser_vars,
                    retriever_vars >>

\* A _clean_up that begins by stopping the forwarder's MQTT client.
clean_up_reading_disconnects ==
    /\ manager = "_clean_up"
    /\ manager' = "wait_parsing"
    /\ futures' = [ futures EXCEPT !.mqtt_disconnects_fut = None,
                                   !.reading_fut = None ]
    /\ bytes_in_queue' = Append(bytes_in_queue, POISON_PILL)
    /\ mqtt_client' = "new"
    /\ is_mqtt_connected' = FALSE
    /\ UNCHANGED << is_mqtt_disconnected, callback, forwarder,
                    retained_message, is_root_start_tag_published,
                    xml_forward_queue, published, tcp_session, tcp_sessions,
                    forward_puts, roots_forwarded, stale_forwarded,
                    connects, writer, socket, machine_vars, parser_vars,
                    retriever_vars >>

\* _clean_up up to the wait for the decoder: cancel the watch of
\* is_mqtt_disconnected and the reader, wait for each, put the sentinel on
\* bytes_in
clean_up_reading ==
    /\ manager = "_clean_up"
    /\ LET watch == Cancel(futures.mqtt_disconnects_fut)
           reading == Cancel(futures.reading_fut)
       IN  /\ AwaitIfSet(watch) # "blocks"
           /\ AwaitIfSet(reading) # "blocks"
           /\ IF AwaitIfSet(watch) = "raises"
              THEN /\ manager' = "raised"
                   /\ futures' = [ futures EXCEPT
                                       !.mqtt_disconnects_fut = watch ]
                   /\ UNCHANGED bytes_in_queue
              ELSE IF AwaitIfSet(reading) = "raises"
              THEN /\ manager' = "raised"
                   /\ futures' = [ futures EXCEPT
                                       !.mqtt_disconnects_fut = None,
                                       !.reading_fut = reading ]
                   /\ UNCHANGED bytes_in_queue
              ELSE /\ manager' = "wait_parsing"
                   /\ futures' = [ futures EXCEPT
                                       !.mqtt_disconnects_fut = None,
                                       !.reading_fut = None ]
                   /\ bytes_in_queue' = Append(bytes_in_queue, POISON_PILL)
    /\ UNCHANGED << connects, writer, socket, machine_vars, forwarder_vars, parser_vars,
                    retriever_vars >>

\* _clean_up: wait for the decoder, put the sentinel on xml_in
clean_up_parsing ==
    /\ manager = "wait_parsing"
    /\ AwaitIfSet(futures.parsing_fut) # "blocks"
    /\ IF AwaitIfSet(futures.parsing_fut) = "raises"
       THEN /\ manager' = "raised"
            /\ UNCHANGED << futures, xml_in_queue >>
       ELSE /\ manager' = "wait_roi_machine"
            /\ futures' = [ futures EXCEPT !.parsing_fut = None ]
            /\ xml_in_queue' = Append(xml_in_queue, POISON_PILL)
    /\ UNCHANGED << current_state, old_state, event, runner, should_resume,
                    on_message_id, bytes_out_queue, message_id_counter,
                    session, puts, pill_put, events, prev_events, retired_ids,
                    connects, bytes_in_queue, writer, socket, forwarder_vars, parser_vars,
                    retriever_vars >>

\* _clean_up: wait for the state machine, put the sentinel on bytes_out
clean_up_roi_machine ==
    /\ manager = "wait_roi_machine"
    /\ AwaitIfSet(futures.roi_machine_fut) # "blocks"
    /\ IF AwaitIfSet(futures.roi_machine_fut) = "raises"
       THEN /\ manager' = "raised"
            /\ UNCHANGED << futures, bytes_out_queue >>
       ELSE /\ manager' = "wait_writing"
            /\ futures' = [ futures EXCEPT !.roi_machine_fut = None ]
            /\ bytes_out_queue' = Append(bytes_out_queue, POISON_PILL)
    /\ UNCHANGED << current_state, old_state, event, runner, should_resume,
                    on_message_id, xml_in_queue, message_id_counter, session,
                    puts, pill_put, events, prev_events, retired_ids,
                    connects, bytes_in_queue, writer, socket, forwarder_vars, parser_vars,
                    retriever_vars >>

\* _clean_up: wait for the writer, empty the three queues, close the writer
clean_up_writing ==
    /\ manager = "wait_writing"
    /\ AwaitIfSet(futures.writing_fut) # "blocks"
    /\ IF AwaitIfSet(futures.writing_fut) = "raises"
       THEN /\ manager' = "raised"
            /\ UNCHANGED << futures, bytes_in_queue, xml_in_queue,
                            bytes_out_queue, writer, socket >>
       ELSE /\ manager' = "sleep"
            /\ futures' = [ futures EXCEPT !.writing_fut = None ]
            /\ bytes_in_queue' = empty_queue(bytes_in_queue)
            /\ xml_in_queue' = empty_queue(xml_in_queue)
            /\ bytes_out_queue' = empty_queue(bytes_out_queue)
            /\ writer' = None
            /\ socket' = IF writer # None THEN "closed" ELSE socket
    /\ UNCHANGED << current_state, old_state, event, runner, should_resume,
                    on_message_id, message_id_counter, session, puts,
                    pill_put, events, prev_events, retired_ids, connects,
                    forwarder_vars, parser_vars,
                    retriever_vars >>

\* run: await asyncio.sleep(reconnect_wait_in_seconds), then loop
sleep ==
    /\ manager = "sleep"
    /\ manager' = "wait_for_event"
    /\ UNCHANGED << connects, bytes_in_queue, writer, socket, futures,
                    machine_vars, forwarder_vars, parser_vars,
                    retriever_vars >>

(***************************************************************************)
(* The reader of roimanager.py and the decoder, xmlparser.py.  A line of   *)
(* the inbound stream is the start tag of the root element, one child      *)
(* element of the root, the end tag of the root element, or bytes that are *)
(* no XML.                                                                 *)
(***************************************************************************)
Line(kind, tag) == [ kind |-> kind, tag |-> tag ]

Lines ==
    { Line("start", ROI_ROOT_NAME),
      Line("element", ROI_LAST_PROCESSED_NAME),
      Line("element", "Other"),
      Line("end", ROI_ROOT_NAME),
      Line("junk", None) }

ParserInit ==
    /\ reader = "idle"
    /\ inbound = << >>
    /\ parser = "idle"
    /\ writing = "idle"
    /\ written = << >>

\* _keep_reading, one turn of its loop with a line read: put it on bytes_in
keep_reading(line) ==
    /\ reader # "returned"
    /\ Len(inbound) < MaxLines
    /\ reader' = "readline"
    /\ inbound' = Append(inbound, line)
    /\ bytes_in_queue' = Append(bytes_in_queue, line)
    /\ UNCHANGED << parser, writing, written, manager, connects, writer,
                    socket, futures, machine_vars, forwarder_vars,
                    retriever_vars >>

\* _keep_reading, the turn in which readline returns b'': the server has
\* closed the connection and the reader returns
keep_reading_eof ==
    /\ reader # "returned"
    /\ reader' = "returned"
    /\ UNCHANGED << inbound, parser, writing, written, manager_vars,
                    machine_vars, forwarder_vars, retriever_vars >>

\* keep_parsing: its first statement in the try block unpacks the value of
\* the call self._handle_root_start_tag() into two names.  The call is not
\* awaited, so the value is a coroutine object, which is not iterable:
\* TypeError, which `except etree.LxmlError` does not catch.  Nothing has
\* been taken from bytes_in and nothing is put on either queue.
keep_parsing ==
    /\ parser = "idle"
    /\ parser' = "raised"
    /\ UNCHANGED << reader, inbound, writing, written, manager_vars,
                    machine_vars, forwarder_vars, retriever_vars >>

\* The sentinel is on the queue.
PillIn(queue_) == \E i \in DOMAIN queue_ : queue_[i] = POISON_PILL

\* _clean_up: await self._bytes_in_queue.put(poisonpill.POISON_PILL)
clean_up_put_bytes_in ==
    /\ ~PillIn(bytes_in_queue)
    /\ bytes_in_queue' = Append(bytes_in_queue, POISON_PILL)
    /\ UNCHANGED << manager, connects, writer, socket, futures, parser_vars,
                    machine_vars, forwarder_vars, retriever_vars >>

\* The payloads the state machine may have put on bytes_out.
WriterPayloads ==
    { Fill("own_root_start_tag", NoExtra, 0),
      Fill("resume_subscription", NoExtra, 1) }

\* Messenger._send, as the writer sees it: a payload is put on bytes_out
bytes_out_put(payload) ==
    /\ Len(written) + Len(bytes_out_queue) < MaxLines
    /\ bytes_out_queue' = Append(bytes_out_queue, payload)
    /\ UNCHANGED << current_state, old_state, event, runner, should_resume,
                    on_message_id, xml_in_queue, message_id_counter, session,
                    puts, pill_put, events, prev_events, retired_ids,
                    manager_vars, parser_vars, forwarder_vars,
                    retriever_vars >>

\* _clean_up: run_in_executor(self._bytes_out_queue.put, POISON_PILL)
clean_up_put_bytes_out ==
    /\ ~PillIn(bytes_out_queue)
    /\ Len(written) + Len(bytes_out_queue) < MaxLines
    /\ bytes_out_queue' = Append(bytes_out_queue, POISON_PILL)
    /\ UNCHANGED << current_state, old_state, event, runner, should_resume,
                    on_message_id, xml_in_queue, message_id_counter, session,
                    puts, pill_put, events, prev_events, retired_ids,
                    manager_vars, parser_vars, forwarder_vars,
                    retriever_vars >>

\* _keep_writing: `to_be_sent is poisonpill.POISON_PILL` is false
Writes(to_be_sent) == to_be_sent # POISON_PILL

\* _keep_writing, one turn of its loop: get from bytes_out, return on the
\* sentinel, else write and drain; drained tells whether that went through
\* or raised OSError, on which the writer returns too
keep_writing(drained) ==
    /\ writing # "returned"
    /\ bytes_out_queue # << >>
    /\ bytes_out_queue' = Tail(bytes_out_queue)
    /\ IF Writes(Head(bytes_out_queue))
       THEN IF drained
            THEN /\ written' = Append(written, Head(bytes_out_queue))
                 /\ writing' = "get"
            ELSE /\ writing' = "returned"
                 /\ UNCHANGED written
       ELSE /\ writing' = "returned"
            /\ UNCHANGED written
    /\ UNCHANGED << current_state, old_state, event, runner, should_resume,
                    on_message_id, xml_in_queue, message_id_counter, session,
                    puts, pill_put, events, prev_events, retired_ids,
                    reader, inbound, parser, manager_vars, forwarder_vars,
                    retriever_vars >>

(***************************************************************************)
(* The probe of the retained message, mqttretainedretriever.py.  run       *)
(* blocks in the client's loop_forever, which calls the callbacks; the     *)
(* Timer runs client.unsubscribe on a thread of its own.                   *)
(***************************************************************************)
RetrieverInit ==
    /\ retriever = "idle"
    /\ timer = None
    /\ orphan_timers = 0
    /\ is_message_handled = FALSE
    /\ unsubscribing = FALSE
    /\ messages = 0
    /\ losses = 0

\* An MQTT message as _cb_on_message looks at it: whether its topic is the
\* topic of the probe, its retain flag and its payload.
MqttMessage(topic, retain, payload) ==
    [ topic |-> topic, retain |-> retain, payload |-> payload ]

MqttMessages ==
    { MqttMessage(topic, retain, message.payload) :
          topic \in BOOLEAN, retain \in BOOLEAN,
          message \in { m \in ProbeResults : m.present } }

\* The client of the probe has a connection to send on.
RetrieverConnected == retriever \in { "subscribing", "subscribed" }

\* client.unsubscribe, as the timers and _cb_on_message call it: without a
\* connection it returns MQTT_ERR_NO_CONN and sends nothing.
Unsubscribe == IF RetrieverConnected THEN TRUE ELSE unsubscribing

\* A _cb_on_subscribe that starts no Timer.
TimerNotStarted(handled, before) == before

\* _cb_on_subscribe: _timer after it, handled being _is_message_handled
TimerAfterSubscribe(handled, before) == IF handled THEN before ELSE "started"

\* Timer.cancel, which _cb_on_message calls when _timer is not None
TimerCancelled(before) == IF before = "started" THEN "cancelled" ELSE before

\* _cb_on_message: _retained_message after it
RetainedAfterMessage(message, before) ==
    IF message.topic /\ message.retain THEN Message(message.payload)
    ELSE before

\* MQTTForwarder._check_retained_message calls run in the executor: run
\* calls connect_async and enters loop_forever
retriever_run ==
    /\ forwarder = "check_retained_message"
    /\ retriever = "idle"
    /\ retriever' = "connecting"
    /\ UNCHANGED << timer, orphan_timers, is_message_handled, unsubscribing,
                    messages, losses, machine_vars, forwarder_vars,
                    manager_vars, parser_vars >>

\* loop_forever: the first connection attempt fails and the OSError leaves
\* loop_forever, run and MQTTForwarder.run
retriever_connect_raises ==
    /\ retriever = "connecting"
    /\ retriever' = "raised"
    /\ forwarder' = "raised"
    /\ UNCHANGED << timer, orphan_timers, is_message_handled, unsubscribing,
                    messages, losses, machine_vars, is_mqtt_connected,
                    is_mqtt_disconnected, callback, mqtt_client,
                    retained_message, is_root_start_tag_published,
                    xml_forward_queue, published, tcp_session, tcp_sessions,
                    forward_puts, roots_forwarded, stale_forwarded,
                    manager_vars, parser_vars >>

\* _cb_on_connect with rc = 0: subscribe to the topic
retriever_cb_on_connect ==
    /\ retriever \in { "connecting", "reconnecting" }
    /\ retriever' = "subscribing"
    /\ UNCHANGED << timer, orphan_timers, is_message_handled, unsubscribing,
                    messages, losses, machine_vars, forwarder_vars,
                    manager_vars, parser_vars >>

\* _cb_on_connect with rc # 0: only logged
retriever_cb_on_connect_refused ==
    /\ retriever \in { "connecting", "reconnecting" }
    /\ retriever' = "refused"
    /\ UNCHANGED << timer, orphan_timers, is_message_handled, unsubscribing,
                    messages, losses, machine_vars, forwarder_vars,
                    manager_vars, parser_vars >>

\* _cb_on_subscribe: start a Timer unless the message is handled already
retriever_cb_on_subscribe ==
    /\ retriever = "subscribing"
    /\ retriever' = "subscribed"
    /\ timer' = TimerAfterSubscribe(is_message_handled, timer)
    /\ orphan_timers' =
           IF ~is_message_handled /\ timer = "started"
           THEN orphan_timers + 1
           ELSE orphan_timers
    /\ UNCHANGED << is_message_handled, unsubscribing, messages, losses,
                    machine_vars, forwarder_vars, manager_vars, parser_vars >>

\* _cb_on_message
retriever_cb_on_message(message) ==
    /\ RetrieverConnected
    /\ messages < MaxMessages
    /\ messages' = messages + 1
    /\ timer' = TimerCancelled(timer)
    /\ retained_message' = RetainedAfterMessage(message, retained_message)
    /\ is_message_handled' = TRUE
    /\ unsubscribing' = Unsubscribe
    /\ UNCHANGED << retriever, orphan_timers, losses, machine_vars,
                    is_mqtt_connected, is_mqtt_disconnected, callback,
                    mqtt_client, forwarder, is_root_start_tag_published,
                    xml_forward_queue, published, tcp_session, tcp_sessions,
                    forward_puts, roots_forwarded, stale_forwarded,
                    manager_vars, parser_vars >>

\* The Timer of _cb_on_subscribe runs out: client.unsubscribe([topic])
timer_runs_out ==
    /\ retriever \notin { "idle", "returned", "raised" }
    /\ timer = "started"
    /\ timer' = "fired"
    /\ unsubscribing' = Unsubscribe
    /\ UNCHANGED << retriever, orphan_timers, is_message_handled, messages,
                    losses, machine_vars, forwarder_vars, manager_vars,
                    parser_vars >>

\* A Timer of an earlier _cb_on_subscribe runs out
orphan_timer_runs_out ==
    /\ retriever \notin { "idle", "returned", "raised" }
    /\ orphan_timers > 0
    /\ orphan_timers' = orphan_timers - 1
    /\ unsubscribing' = Unsubscribe
    /\ UNCHANGED << retriever, timer, is_message_handled, messages, losses,
                    machine_vars, forwarder_vars, manager_vars, parser_vars >>

\* _cb_on_unsubscribe: client.disconnect()
retriever_cb_on_unsubscribe ==
    /\ RetrieverConnected
    /\ unsubscribing
    /\ unsubscribing' = FALSE
    /\ retriever' = "disconnecting"
    /\ UNCHANGED << timer, orphan_timers, is_message_handled, messages,
                    losses, machine_vars, forwarder_vars, manager_vars,
                    parser_vars >>

\* _cb_on_disconnect with rc = 0, after client.disconnect(): the Event is
\* set, loop_forever returns and run returns _retained_message
retriever_cb_on_disconnect ==
    /\ retriever = "disconnecting"
    /\ retriever' = "returned"
    /\ UNCHANGED << timer, orphan_timers, is_message_handled, unsubscribing,
                    messages, losses, machine_vars, forwarder_vars,
                    manager_vars, parser_vars >>

\* _cb_on_disconnect with rc # 0: the connection is lost or was refused,
\* only logged; loop_forever connects again
retriever_cb_on_disconnect_lost ==
    /\ \/ retriever = "refused" /\ UNCHANGED losses
       \/ /\ RetrieverConnected
          /\ losses < MaxLosses
          /\ losses' = losses + 1
    /\ retriever' = "reconnecting"
    /\ unsubscribing' = FALSE
    /\ UNCHANGED << timer, orphan_timers, is_message_handled, messages,
                    machine_vars, forwarder_vars, manager_vars, parser_vars >>

\* A _check_retained_message that does not wait for run to return.
check_retained_message_early == check_retained_message(retained_message)

\* MQTTForwarder._check_retained_message once run has returned
check_retained_message_returned ==
    /\ retriever = "returned"
    /\ check_retained_message(retained_message)

(***************************************************************************)
(* The two specifications.                                                 *)
(***************************************************************************)
Init ==
    /\ MachineInit
    /\ ForwarderInit
    /\ ManagerInit
    /\ ParserInit
    /\ RetrieverInit

\* react_in_subscribing_response is no disjunct: SubscribingResponseNeverRuns
\* below shows that no reachable state enables it.
Next ==
    \/ run
    \/ \E element \in Elements : put_element(element)
    \/ put_poison_pill
    \/ empty_queues
    \/ react_in_own_root_tag
    \/ react_in_remote_root_tag
    \/ react_in_subscription_choice
    \/ react_in_resuming_attempt
    \/ react_in_subscribing_attempt
    \/ react_in_resuming_response
    \/ react_in_last_processed
    \/ react_in_listening
    \/ react_in_closing

Spec == Init /\ [][Next]_vars

NextForwarder ==
    \/ \E message \in ProbeResults : check_retained_message(message)
    \/ wait_for_connected
    \/ publish_root
    \/ wait_for_publish
    \/ keep_publishing
    \/ signal_connect_clear
    \/ signal_connect_set
    \/ cb_on_connect_refused
    \/ signal_disconnect_clear
    \/ signal_disconnect_set
    \/ open_tcp_session
    \/ \E element \in ForwardElements : forward_put(element)
    \/ close_tcp_session

SpecForwarder == Init /\ [][NextForwarder]_vars

\* The forwarder with the teardowns of the supervisor marked on its queue.
NextDelivery ==
    \/ \E message \in ProbeResults : check_retained_message(message)
    \/ wait_for_connected
    \/ publish_root
    \/ wait_for_publish
    \/ keep_publishing
    \/ signal_connect_clear
    \/ signal_connect_set
    \/ cb_on_connect_refused
    \/ signal_disconnect_clear
    \/ signal_disconnect_set
    \/ open_tcp_session
    \/ \E element \in ForwardElements : forward_put(element)
    \/ begin_clean_up

SpecDelivery == Init /\ [][NextDelivery]_vars

NextManager ==
    \/ \E message \in ProbeResults : check_retained_message(message)
    \/ signal_connect_clear
    \/ signal_connect_set
    \/ cb_on_connect_refused
    \/ signal_disconnect_clear
    \/ signal_disconnect_set
    \/ run_wait_for_event
    \/ \E connected \in BOOLEAN : connect(connected)
    \/ set_futures_up
    \/ clean_up_reading
    \/ clean_up_parsing
    \/ clean_up_roi_machine
    \/ clean_up_writing
    \/ sleep

SpecManager == Init /\ [][NextManager]_vars

\* The supervisor with the forwarder running beside it as far as its wait
\* for an element.
NextTeardown ==
    \/ \E message \in ProbeResults : check_retained_message(message)
    \/ wait_for_connected
    \/ signal_connect_clear
    \/ signal_connect_set
    \/ cb_on_connect_refused
    \/ signal_disconnect_clear
    \/ signal_disconnect_set
    \/ run_wait_for_event
    \/ \E connected \in BOOLEAN : connect(connected)
    \/ set_futures_up
    \/ clean_up_reading
    \/ clean_up_parsing
    \/ clean_up_roi_machine
    \/ clean_up_writing
    \/ sleep

SpecTeardown == Init /\ [][NextTeardown]_vars

NextParser ==
    \/ \E line \in Lines : keep_reading(line)
    \/ keep_reading_eof
    \/ keep_parsing

SpecParser == Init /\ [][NextParser]_vars

\* The lines a stream may begin with: the start tag of the root element or
\* another element.
FirstLines == { line \in Lines : line.kind = "start" \/ line.tag = "Other" }

\* The reader, the decoder and the writer of a TCP session with the
\* sentinels _clean_up puts on their queues.
NextWorkers ==
    \/ \E line \in FirstLines : keep_reading(line)
    \/ keep_reading_eof
    \/ keep_parsing
    \/ clean_up_put_bytes_in
    \/ \E payload \in WriterPayloads : bytes_out_put(payload)
    \/ clean_up_put_bytes_out
    \/ \E drained \in BOOLEAN : keep_writing(drained)

SpecWorkers == Init /\ [][NextWorkers]_vars

\* One root element and one child element, serialized the same way.
RootAndChild ==
    { element \in ForwardElements :
          element.prefix = "ROI" /\ element.content /\ ~element.tail }

\* The forwarder with the probe it runs first.
NextRetriever ==
    \/ retriever_run
    \/ retriever_connect_raises
    \/ retriever_cb_on_connect
    \/ retriever_cb_on_connect_refused
    \/ retriever_cb_on_subscribe
    \/ \E message \in MqttMessages : retriever_cb_on_message(message)
    \/ timer_runs_out
    \/ orphan_timer_runs_out
    \/ retriever_cb_on_unsubscribe
    \/ retriever_cb_on_disconnect
    \/ retriever_cb_on_disconnect_lost
    \/ check_retained_message_returned
    \/ wait_for_connected
    \/ publish_root
    \/ wait_for_publish
    \/ keep_publishing
    \/ signal_connect_clear
    \/ signal_connect_set
    \/ cb_on_connect_refused
    \/ signal_disconnect_clear
    \/ signal_disconnect_set
    \/ open_tcp_session
    \/ \E element \in RootAndChild : forward_put(element)
    \/ close_tcp_session

SpecRetriever == Init /\ [][NextRetriever]_vars

(***************************************************************************)
(* Properties of the ROI state machine, checked under Spec.                *)
(***************************************************************************)
RunEnded == runner \in { "returned", "raised" }

Last(seq) == seq[Len(seq)]

Occurs(ev, evs) == \E i \in DOMAIN evs : evs[i] = ev

Sent(template) ==
    \E i \in DOMAIN bytes_out_queue : bytes_out_queue[i].template = template

\* The reaction of subscribing_response is never the callback to call, so
\* leaving react_in_subscribing_response out of Next loses no behaviour.
SubscribingResponseNeverRuns == Callback # "_react_in_subscribing_response"

\* C1: a run ends if and only if the machine has reached closed; it never
\* ends by a fault (an exception of the runner) or in a state other than
\* closed, and a machine in closed is no longer running.
C1_RunEndsIffClosed ==
    /\ runner # "raised"
    /\ runner = "returned" => current_state = "closed"
    /\ runner = "running" => current_state # "closed"

\* The events whose transition enters closing.
ClosingEvents ==
    { "got_unexpected_element", "got_poison_pill", "got_resuming_failed",
      "got_subscribing_failed", "got_remote_root_end_tag" }

EnteredClosing == \E i \in DOMAIN events : events[i] \in ClosingEvents

EndTagsSent ==
    Cardinality({ i \in DOMAIN bytes_out_queue :
                      bytes_out_queue[i].template = "own_root_end_tag" })

\* C2: whatever event made the machine enter closing, the machine then sends
\* exactly one own root end tag and moves to closed: a machine in closing has
\* the closing reaction to run, and a run that entered closing ends in closed
\* with one end tag sent, as the last payload.
C2_ClosingSendsEndTagThenClosed ==
    /\ (current_state = "closing" /\ runner # "idle")
           => Callback = "_react_in_closing"
    /\ (RunEnded /\ EnteredClosing)
           => /\ current_state = "closed"
              /\ EndTagsSent = 1
              /\ Last(bytes_out_queue).template = "own_root_end_tag"

\* C3: a resume rejected in resuming_response (SubscriptionErrorResponse, or
\* SubscriptionErrorReport with a Code other than 122) leaves should_resume
\* false and the run ends in closed; the next session chooses to subscribe
\* once it has read the root element, and sends a subscribe and no resume.
C3_ResumeRejected ==
    /\ Occurs("got_resuming_failed", events) =>
           /\ ~should_resume
           /\ runner # "running" =>
                  (current_state = "closed" /\ Last(events) = "sent_own_root_end_tag")
    /\ (Occurs("got_resuming_failed", prev_events) /\ runner # "idle") =>
           /\ ~Occurs("chose_to_resume", events)
           /\ ~Sent("resume_subscription")
           /\ \A i \in DOMAIN events :
                  (events[i] = "got_remote_root_start_tag" /\ i < Len(events))
                      => events[i + 1] = "chose_to_subscribe"
           /\ \A i \in DOMAIN events :
                  (events[i] = "chose_to_subscribe" /\ i < Len(events))
                      => /\ Len(bytes_out_queue) >= 2
                         /\ bytes_out_queue[2].template = "subscribe"

C3_Witness ==
    /\ Occurs("got_resuming_failed", prev_events)
    /\ Len(bytes_out_queue) = 2
    /\ bytes_out_queue[1].template = "own_root_start_tag"
    /\ bytes_out_queue[2].template = "subscribe"
    /\ ~should_resume

\* C4: once the subscribe is sent the machine is in subscribing_response
\* (the event sent_subscribing_element took it there), having sent the root
\* start tag and then the subscribe, and a SubscriptionResponse read there
\* puts it in listening with should_resume true.
C4_SubscribeHappyPath ==
    /\ (Sent("subscribe") /\ runner # "idle") =>
           /\ Occurs("sent_subscribing_element", events)
           /\ bytes_out_queue[1].template = "own_root_start_tag"
           /\ bytes_out_queue[2].template = "subscribe"
    /\ (events # << >> /\ Last(events) = "got_subscribing_ok") =>
           (current_state = "listening" /\ should_resume)

\* One call of a reaction that takes the head of the input queue.
Reads(reaction) ==
    /\ Callback = reaction
    /\ xml_in_queue # << >>
    /\ xml_in_queue' = Tail(xml_in_queue)

\* One call of a reaction, whether it reads or not.
Reacts(reaction) == Callback = reaction /\ events' # events

\* C5: in resuming_response a SubscriptionErrorReport with Code 122 keeps
\* the machine in resuming_response, about to read again, with should_resume
\* true and nothing sent; a SubscriptionResumeResponse moves it to listening
\* with should_resume true.
C5_Code122Loop ==
    [][ Reads("_react_in_resuming_response") =>
          LET received == Head(xml_in_queue)
          IN  /\ should_resume
              /\ ( received.tag = ROI_SUBSCRIPTION_ERROR_REPORT_NAME
                   /\ received.Code = "122" ) =>
                     /\ current_state' = "resuming_response"
                     /\ Callback' = "_react_in_resuming_response"
                     /\ should_resume'
                     /\ UNCHANGED << bytes_out_queue, message_id_counter >>
              /\ received.tag = ROI_SUBSCRIPTION_RESUME_RESPONSE_NAME =>
                     /\ current_state' = "listening"
                     /\ Callback' = "_react_in_listening"
                     /\ should_resume'
                     /\ UNCHANGED << bytes_out_queue, message_id_counter >>
      ]_vars

C5_Witness ==
    /\ Len(events) >= 7
    /\ events[Len(events) - 1] = "got_too_old_but_perhaps_resuming_ok"
    /\ Last(events) = "got_resuming_ok"
    /\ current_state = "listening"
    /\ should_resume

\* The reactions that read a LastProcessedMessageRequest, by state.
ReadingReaction ==
    [ listening |-> "_react_in_listening",
      resuming_response |-> "_react_in_resuming_response",
      subscribing_response |-> "_react_in_subscribing_response" ]

\* C6: a LastProcessedMessageRequest with MessageId m read in listening,
\* resuming_response or subscribing_response takes the machine to
\* last_processed with nothing sent yet; there it sends exactly one reply
\* send_last_processed(m, m) and returns to the state the request was read
\* in, about to read again.
C6_LastProcessedEcho ==
    [][ /\ \A state \in DOMAIN ReadingReaction :
              ( /\ current_state = state
                /\ Reads(ReadingReaction[state])
                /\ Head(xml_in_queue).tag = ROI_LAST_PROCESSED_NAME ) =>
                  /\ current_state' = "last_processed"
                  /\ Callback' = "_react_in_last_processed"
                  /\ old_state' = state
                  /\ on_message_id' = Head(xml_in_queue).MessageId
                  /\ UNCHANGED bytes_out_queue
        /\ Reacts("_react_in_last_processed") =>
              /\ old_state \in DOMAIN ReadingReaction
              /\ Len(bytes_out_queue') = Len(bytes_out_queue) + 1
              /\ SubSeq(bytes_out_queue', 1, Len(bytes_out_queue))
                     = bytes_out_queue
              /\ Last(bytes_out_queue').template = "last_processed"
              /\ Last(bytes_out_queue').on_message_id = on_message_id
              /\ Last(bytes_out_queue').last_processed_message_id
                     = on_message_id
              /\ current_state' = old_state
              /\ Callback' = ReadingReaction[old_state]
        /\ ( current_state = "last_processed" /\ runner = "running" ) =>
              ( Reacts("_react_in_last_processed")
                \/ UNCHANGED << on_message_id, old_state, current_state,
                                bytes_out_queue >> )
      ]_vars

C6_Witness ==
    /\ current_state = "resuming_response"
    /\ Last(events) = "sent_lp_response_return_resuming"
    /\ Last(bytes_out_queue).template = "last_processed"
    /\ Last(bytes_out_queue).on_message_id = "b"
    /\ Last(bytes_out_queue).last_processed_message_id = "b"

\* C7: the message ids of all payloads sent since the process started, over
\* all sessions, are pairwise distinct; each payload took one value of the
\* one counter, so the n-th payload carries n - 1 and the counter stands at
\* the number of payloads.
C7_MessageIdsDistinct ==
    LET ids == retired_ids \o MessageIds(bytes_out_queue)
    IN  /\ \A i, j \in DOMAIN ids : i # j => ids[i] # ids[j]
        /\ \A i \in DOMAIN ids : ids[i] = i - 1
        /\ message_id_counter = Len(ids)

C7_Witness ==
    /\ session = 2
    /\ Len(retired_ids) >= 3
    /\ Len(bytes_out_queue) >= 3
    /\ \E i, j \in DOMAIN bytes_out_queue :
           bytes_out_queue[i].template # bytes_out_queue[j].template

(***************************************************************************)
(* Properties of the MQTT forwarder, checked under SpecForwarder.          *)
(***************************************************************************)
\* C8 as stated: at every instant exactly one of the two signals is set.
C8_ExactlyOneSignal == is_mqtt_connected # is_mqtt_disconnected

\* C8 as amended: the two signals are never both set; exactly one is set
\* whenever no callback is between its two statements, is_mqtt_disconnected
\* before the client first connects; inside a callback neither may be set.
C8_AtMostOneSignal ==
    /\ ~(is_mqtt_connected /\ is_mqtt_disconnected)
    /\ callback = None => is_mqtt_connected # is_mqtt_disconnected
    /\ mqtt_client = "new" => is_mqtt_disconnected

C8_Witness ==
    /\ callback = "_signal_disconnect"
    /\ ~is_mqtt_connected
    /\ ~is_mqtt_disconnected
    /\ tcp_session

RetainedPublishes == { i \in DOMAIN published : published[i].retain }

\* C9: at most one publish has retain = true, however many TCP sessions and
\* root elements there are, and none has when the probe returned a message
\* whose first start tag is the root tag.
C9_AtMostOneRetainedPublish ==
    /\ Cardinality(RetainedPublishes) <= 1
    /\ ( retained_message.present
         /\ FirstStartTag(retained_message.payload) = ROI_ROOT_NAME )
           => RetainedPublishes = { }

C9_Witness ==
    /\ Cardinality(RetainedPublishes) = 1
    /\ roots_forwarded >= 2
    /\ tcp_sessions = 2
    /\ xml_forward_queue = << >>
    /\ forwarder = "_keep_publishing"

\* The payload holds an end tag of the root element, under any prefix.
HasRootEndTag(payload) ==
    \E i \in DOMAIN payload :
        payload[i].kind = "end" /\ payload[i].name = ROI_ROOT_NAME

\* C10: the retained payload is the root start tag, serialized, without the
\* root end tag, and no published payload holds the root end tag.
C10_RootEndTagNeverPublished ==
    \A i \in DOMAIN published :
        /\ ~HasRootEndTag(published[i].payload)
        /\ published[i].retain =>
               /\ published[i].payload # << >>
               /\ published[i].payload[1].kind \in { "start", "empty" }
               /\ published[i].payload[1].name = ROI_ROOT_NAME

C13_SupervisorNeverTerminates == manager # "raised"

(***************************************************************************)
(* Delivery across teardowns, checked under SpecDelivery.                  *)
(***************************************************************************)
\* C12: no element is published after the supervisor has begun the teardown
\* of the TCP session the element was decoded in: every step that publishes
\* takes an element of the session that is open at that moment.
C12_NoPublishAfterTeardown ==
    [][ published' # published =>
            ( tcp_session /\ stale_forwarded = 0 ) ]_vars

(***************************************************************************)
(* Properties of the decoder, checked under SpecParser.                    *)
(***************************************************************************)
Tags(queue_) == [ i \in DOMAIN queue_ |-> queue_[i].tag ]

\* The lines form a well-formed ROI document: the start tag of the root
\* element, child elements, the end tag of the root element.
WellFormed(lines) ==
    /\ Len(lines) >= 2
    /\ lines[1].kind = "start"
    /\ lines[Len(lines)].kind = "end"
    /\ \A i \in 2 .. Len(lines) - 1 : lines[i].kind = "element"

\* The tags of the root element and of its children, in document order.
DocumentOrder(lines) == [ i \in 1 .. Len(lines) - 1 |-> lines[i].tag ]

IsPrefix(s, t) == Len(s) <= Len(t) /\ SubSeq(t, 1, Len(s)) = s

DecoderEnded == parser \in { "returned", "raised" }

\* C15: the decoder puts the same elements, in the same order, on
\* xml_to_machine and on xml_to_forwarder, and of a well-formed document it
\* puts the root element and then every child of the root, once each and in
\* document order: it does not end (nothing here puts the sentinel) with an
\* element of the document undelivered.
C15_ElementsReachBothQueues ==
    /\ Tags(xml_in_queue) = Tags(xml_forward_queue)
    /\ ( WellFormed(inbound) /\ DecoderEnded ) =>
           /\ IsPrefix(DocumentOrder(inbound), Tags(xml_in_queue))
           /\ IsPrefix(DocumentOrder(inbound), Tags(xml_forward_queue))

(***************************************************************************)
(* Properties of the probe of the retained message, checked under          *)
(* SpecRetriever.                                                          *)
(***************************************************************************)
\* The root elements waiting on xml_forward_queue.
RootsWaiting ==
    Cardinality({ i \in DOMAIN xml_forward_queue :
                      xml_forward_queue[i].tag = ROI_ROOT_NAME })

\* While no message has come, a subscribed probe has a Timer running or,
\* once the Timer has run out, an UNSUBSCRIBE in flight; a probe that has
\* returned returns None, after its Timer or, where the connection was
\* lost, the Timer of an earlier subscription ran out; the forwarder then has the root flag false until
\* its own retained publish, which is its first publish, and while it waits
\* for a root element every root element that has arrived is still on the
\* queue.
C16_State ==
    messages = 0 =>
        /\ retriever = "subscribed" => ( timer = "started" \/ unsubscribing )
        /\ retriever = "returned" =>
               /\ retained_message = NoMessage
               /\ timer = "fired" \/ losses > 0
        /\ forwarder \in { "wait_for_event", "_publish_root" } =>
               /\ ~is_root_start_tag_published
               /\ published = << >>
               /\ RootsWaiting = roots_forwarded
        /\ forwarder \in { "wait_for_publish", "_keep_publishing" } =>
               /\ published # << >>
               /\ published[1].retain
               /\ published[1].payload # << >>
               /\ published[1].payload[1].name = ROI_ROOT_NAME
        /\ is_root_start_tag_published => RetainedPublishes # { }

\* While no message has come, the forwarder waiting for a root element
\* drops a non-root element it takes and publishes a root element it takes,
\* serialized as the root tag and retained.
C16_Step ==
    ( /\ messages = 0
      /\ forwarder = "_publish_root"
      /\ xml_forward_queue # << >>
      /\ xml_forward_queue' = Tail(xml_forward_queue) ) =>
        IF Head(xml_forward_queue).tag = ROI_ROOT_NAME
        THEN /\ published' =
                    << [ payload |-> Serialize(Head(xml_forward_queue), TRUE),
                         retain |-> TRUE ] >>
             /\ forwarder' = "wait_for_publish"
        ELSE UNCHANGED << published, forwarder >>

Templates == [ i \in DOMAIN bytes_out_queue |-> bytes_out_queue[i].template ]

\* The payloads of the session so far: the own root start tag first and
\* only first, a resume or a subscribe only second, a last-processed reply
\* only after one of those, the own root end tag only last.
C17_Shape ==
    /\ Templates # << >> => Templates[1] = "own_root_start_tag"
    /\ \A i \in DOMAIN Templates :
           /\ Templates[i] = "own_root_start_tag" => i = 1
           /\ Templates[i] \in { "resume_subscription", "subscribe" } =>
                  i = 2
           /\ Templates[i] = "last_processed" =>
                  /\ i > 2
                  /\ Templates[2] \in { "resume_subscription", "subscribe" }
           /\ Templates[i] = "own_root_end_tag" => i = Len(Templates)
    /\ ( \E i \in DOMAIN Templates :
             Templates[i] \in { "resume_subscription", "subscribe" } ) =>
           ( Len(events) > 2 /\ events[3] = "got_remote_root_start_tag" )
    /\ ( /\ runner # "idle"
         /\ Len(events) > 4
         /\ events[3] = "got_remote_root_start_tag" ) =>
           ( Len(Templates) > 1
             /\ Templates[2] \in { "resume_subscription", "subscribe" } )

\* The first inbound element of a session is read when the own root start
\* tag, and nothing else, has been sent; it is taken for the remote root
\* start tag only if it is the root element, and otherwise the machine goes
\* to closing.
C17_FirstElement ==
    ( /\ runner = "running"
      /\ current_state = "remote_root_tag"
      /\ xml_in_queue # << >>
      /\ xml_in_queue' = Tail(xml_in_queue) ) =>
        /\ Templates = << "own_root_start_tag" >>
        /\ Len(events) = 2
        /\ Len(events') = 3
        /\ events'[3] = "got_remote_root_start_tag" <=>
               Head(xml_in_queue).tag = ROI_ROOT_NAME
        /\ Head(xml_in_queue).tag # ROI_ROOT_NAME =>
               current_state' = "closing"

\* C17: in every session the payloads put on bytes_out are the own root
\* start tag, sent before any inbound element is read; then, only if the
\* first inbound element is the root element, one resume or subscribe; then
\* any number of last-processed replies; then at most one own root end tag,
\* which is last.
C17_PayloadShape == []C17_Shape /\ [][C17_FirstElement]_vars

\* A second session that sent the root start tag, a resume, a
\* last-processed reply and the root end tag.
C17_Witness ==
    /\ session = 2
    /\ runner = "returned"
    /\ Templates = << "own_root_start_tag", "resume_subscription",
                      "last_processed", "own_root_end_tag" >>

(***************************************************************************)
(* Properties of the choice between resuming and subscribing, checked      *)
(* under Spec.                                                             *)
(***************************************************************************)
\* C18: at subscription_choice the machine goes to resuming_attempt, and
\* there sends a resume, if and only if should_resume is true at that
\* moment; otherwise it goes to subscribing_attempt, and there sends a
\* subscribe.  In the first session of a process it attempts a resume.
C18_ChoiceFollowsShouldResume ==
    /\ [][ /\ Reacts("_react_in_subscription_choice") =>
                 /\ current_state = "subscription_choice"
                 /\ current_state' =
                        IF should_resume THEN "resuming_attempt"
                        ELSE "subscribing_attempt"
                 /\ runner' = "running"
                 /\ UNCHANGED << should_resume, bytes_out_queue >>
           /\ Reacts("_react_in_resuming_attempt") =>
                 /\ should_resume
                 /\ Templates' = Append(Templates, "resume_subscription")
           /\ Reacts("_react_in_subscribing_attempt") =>
                 /\ ~should_resume
                 /\ Templates' = Append(Templates, "subscribe")
           /\ ( runner = "running" /\ current_state = "subscription_choice" ) =>
                 ( Reacts("_react_in_subscription_choice")
                   \/ UNCHANGED << should_resume, current_state, runner,
                                   bytes_out_queue >> )
         ]_vars
    /\ [] ( session = 1 =>
              /\ ( Len(events) > 3
                   /\ events[3] = "got_remote_root_start_tag" ) =>
                     events[4] = "chose_to_resume"
              /\ \A i \in DOMAIN Templates : Templates[i] # "subscribe" )

\* A second session chose to subscribe, should_resume being false after the
\* resume of the first session failed, and sent the subscribe.
C18_Witness ==
    /\ session = 2
    /\ ~should_resume
    /\ current_state = "subscribing_attempt"
    /\ events[4] = "chose_to_subscribe"
    /\ Templates = << "own_root_start_tag", "subscribe" >>
    /\ Len(prev_events) > 4
    /\ prev_events[4] = "chose_to_resume"

\* C19: on entering subscribing_attempt the machine sends exactly one
\* subscribe and moves to subscribing_response, where it reads the next
\* inbound element; on entering resuming_attempt it sends exactly one resume
\* and moves to resuming_response, where it reads the next inbound element.
C19_AttemptSendsOnceThenAwaitsResponse ==
    [][ /\ Reacts("_react_in_subscribing_attempt") =>
              /\ Templates' = Append(Templates, "subscribe")
              /\ current_state' = "subscribing_response"
              /\ Callback' = "_react_in_subscribing_response"
        /\ Reacts("_react_in_resuming_attempt") =>
              /\ Templates' = Append(Templates, "resume_subscription")
              /\ current_state' = "resuming_response"
              /\ Callback' = "_react_in_resuming_response"
      ]_vars

\* The elements on which _react_in_resuming_response clears should_resume.
ResumeRejecting(received) ==
    /\ received # POISON_PILL
    /\ \/ received.tag = ROI_SUBSCRIPTION_ERROR_RESPONSE_NAME
       \/ /\ received.tag = ROI_SUBSCRIPTION_ERROR_REPORT_NAME
          /\ received.Code # "122"

\* The elements on which _react_in_subscribing_response sets should_resume.
SubscribeSettling(received) ==
    /\ received # POISON_PILL
    /\ received.tag # ROI_LAST_PROCESSED_NAME

\* C20: should_resume is set to false in resuming_response on a
\* SubscriptionErrorResponse or a SubscriptionErrorReport with a Code other
\* than 122 and set to true in subscribing_response on any element other
\* than a LastProcessedMessageRequest; every other step leaves it as it is,
\* and the start of a new session leaves last_on_message_id as it is too.
C20_ShouldResumeFrame ==
    [][ /\ Reads("_react_in_resuming_response") =>
              should_resume' =
                  IF ResumeRejecting(Head(xml_in_queue)) THEN FALSE
                  ELSE should_resume
        /\ Reads("_react_in_subscribing_response") =>
              should_resume' =
                  IF SubscribeSettling(Head(xml_in_queue)) THEN TRUE
                  ELSE should_resume
        /\ ~ ( Reads("_react_in_resuming_response")
               \/ Reads("_react_in_subscribing_response") ) =>
              UNCHANGED should_resume
        /\ session' # session =>
              UNCHANGED << should_resume, on_message_id >>
      ]_vars

\* A second session began with should_resume false and the MessageId of the
\* first session, then read an element in remote_root_tag and the sentinel.
C20_Witness ==
    /\ session = 2
    /\ ~should_resume
    /\ on_message_id = "b"
    /\ Len(events) > 2
    /\ \E i \in DOMAIN prev_events :
           prev_events[i] = "got_last_processed_request"
    /\ \E i \in DOMAIN prev_events : prev_events[i] = "got_resuming_failed"

(***************************************************************************)
(* Properties of subscribing_response and listening, checked under Spec.   *)
(***************************************************************************)
\* C21: a session that has sent a subscribe and has ended without reading
\* the sentinel has ended in closed with should_resume true, so that the
\* next session attempts a resume: in subscribing_response an error report,
\* an error response or an unexpected element leads to closing with
\* should_resume true.
C21_SubscribeFailureRestoresResume ==
    ( /\ Sent("subscribe")
      /\ runner \in { "returned", "raised" }
      /\ ~Occurs("got_poison_pill", events) ) =>
        ( current_state = "closed" /\ should_resume )

\* C22: in listening an element that is neither a
\* LastProcessedMessageRequest nor the root element keeps the machine in
\* listening, about to read again, with nothing sent; a root element moves
\* it to closing; the machine leaves listening only by reading a
\* LastProcessedMessageRequest, a root element or the sentinel.
C22_ListeningStays ==
    [][ /\ Reads("_react_in_listening") =>
              LET received == Head(xml_in_queue)
              IN  /\ current_state = "listening"
                  /\ ( received # POISON_PILL
                       /\ received.tag \notin { ROI_LAST_PROCESSED_NAME,
                                                ROI_ROOT_NAME } ) =>
                         /\ current_state' = "listening"
                         /\ Callback' = "_react_in_listening"
                         /\ UNCHANGED << bytes_out_queue, message_id_counter,
                                         should_resume, on_message_id >>
                  /\ ( received # POISON_PILL
                       /\ received.tag = ROI_ROOT_NAME ) =>
                         /\ current_state' = "closing"
                         /\ event' = "got_remote_root_end_tag"
        /\ ( current_state = "listening" /\ current_state' # "listening" ) =>
              /\ Reads("_react_in_listening")
              /\ \/ Head(xml_in_queue) = POISON_PILL
                 \/ Head(xml_in_queue).tag \in { ROI_LAST_PROCESSED_NAME,
                                                 ROI_ROOT_NAME }
      ]_vars

\* The machine read an element that is no request and no root element in
\* listening and is still listening.
C22_Witness ==
    /\ current_state = "listening"
    /\ runner = "running"
    /\ Last(events) = "got_other_element"
    /\ Len(bytes_out_queue) = 2

(***************************************************************************)
(* Properties of the forwarder's signals and of its filtering, checked     *)
(* under SpecForwarder.                                                    *)
(***************************************************************************)
\* C23: is_mqtt_connected and is_mqtt_disconnected are never both set; a
\* step sets is_mqtt_connected only as the second statement of
\* _signal_connect, is_mqtt_disconnected being clear already, and sets
\* is_mqtt_disconnected only as the second statement of _signal_disconnect,
\* is_mqtt_connected being clear already.
C23_NeverBothSignals ==
    /\ [] ~ ( is_mqtt_connected /\ is_mqtt_disconnected )
    /\ [][ /\ ( ~is_mqtt_connected /\ is_mqtt_connected' ) =>
                 /\ callback = "_signal_connect"
                 /\ ~is_mqtt_disconnected
                 /\ ~is_mqtt_disconnected'
           /\ ( ~is_mqtt_disconnected /\ is_mqtt_disconnected' ) =>
                 /\ callback = "_signal_disconnect"
                 /\ ~is_mqtt_connected
                 /\ ~is_mqtt_connected'
         ]_vars

\* The client lost its connection during a TCP session and connected
\* again: both kinds of callback have run, the second _signal_connect is
\* between its two statements.
C23_Witness ==
    /\ callback = "_signal_connect"
    /\ tcp_session
    /\ ~is_mqtt_connected
    /\ ~is_mqtt_disconnected
    /\ published # << >>

\* The forwarder takes the head of xml_forward_queue in the loop it is in.
Takes(loop) ==
    /\ forwarder = loop
    /\ xml_forward_queue # << >>
    /\ xml_forward_queue' = Tail(xml_forward_queue)

\* The probe found a message that begins with the root start tag.
RootFoundByProbe ==
    /\ retained_message.present
    /\ FirstStartTag(retained_message.payload) = ROI_ROOT_NAME

WorkersStarted == \E f \in DOMAIN futures : futures[f] # None

\* C24: in every turn of the supervisor loop the TCP connection is opened,
\* and the workers are started, only after the supervisor has seen
\* is_mqtt_connected set in that turn: run leaves its wait only while the
\* Event is set, _connect is called only from there, and the workers are
\* started only after _connect.
C24_ConnectAfterMqttConnected ==
    /\ [][ /\ ( manager # manager' /\ manager = "wait_for_event" ) =>
                 ( is_mqtt_connected /\ manager' = "_connect" )
           /\ ( manager # manager' /\ manager' = "_connect" ) =>
                 manager = "wait_for_event"
           /\ ( connects' # connects
                \/ ( socket' # socket /\ socket' = "open" ) ) =>
                 manager = "_connect"
           /\ ( manager # manager' /\ manager' = "_set_futures_up" ) =>
                 ( manager = "_connect" /\ socket' = "open" )
           /\ ( WorkersStarted' /\ ~WorkersStarted ) =>
                 manager = "_set_futures_up"
         ]_vars
    /\ [] ( mqtt_client = "new" =>
              ( manager = "wait_for_event" /\ connects = 0
                /\ socket = "none" ) )

\* The second turn of the loop has opened a TCP connection after the first
\* one failed to connect.
C24_Witness ==
    /\ manager = "_set_futures_up"
    /\ connects = 2
    /\ socket = "open"
    /\ mqtt_client # "new"

\* C30: when the workers of a new session are about to be started, bytes_in,
\* xml_to_machine and bytes_out hold no sentinel and no item of an earlier
\* turn of the loop, also when the earlier turn failed at connect.
C30_NoLeakIntoNextSession ==
    manager = "_set_futures_up" =>
        /\ bytes_in_queue = << >>
        /\ xml_in_queue = << >>
        /\ bytes_out_queue = << >>

\* The first turn failed at connect and was cleaned up; the second turn has
\* connected and is about to start its workers.
C30_Witness ==
    /\ manager = "_set_futures_up"
    /\ connects = 2
    /\ writer = "StreamWriter"
    /\ futures = NoFutures

(***************************************************************************)
(* The MQTT side during a teardown, checked under SpecTeardown.            *)
(***************************************************************************)
\* ROIManager.run is inside _clean_up.
InCleanUp ==
    manager \in { "_clean_up", "wait_parsing", "wait_roi_machine",
                  "wait_writing" }

\* C26: no step of _clean_up disconnects the MQTT client, changes
\* is_mqtt_connected or is_mqtt_disconnected, stops the forwarder or takes
\* an item from xml_to_forwarder; the client's callbacks and the forwarder
\* go on during the teardown.
C26_TeardownLeavesMqttAlone ==
    [][ /\ ( InCleanUp /\ manager' # manager ) =>
              UNCHANGED << mqtt_client, callback, is_mqtt_connected,
                           is_mqtt_disconnected, forwarder,
                           is_root_start_tag_published, xml_forward_queue,
                           published >>
        /\ ( InCleanUp /\ forwarder = "wait_for_event" /\ is_mqtt_connected ) =>
              ENABLED wait_for_connected
        /\ ( InCleanUp /\ callback = None /\ mqtt_client = "connected" ) =>
              ENABLED signal_disconnect_clear
      ]_vars

\* A teardown has run to its end while the MQTT client stayed connected and
\* the forwarder stayed in its wait for a root element.
C26_Witness ==
    /\ manager = "sleep"
    /\ connects = 1
    /\ mqtt_client = "connected"
    /\ is_mqtt_connected
    /\ forwarder = "_publish_root"

(***************************************************************************)
(* Properties of the consumers of a TCP session, checked under             *)
(* SpecWorkers.                                                            *)
(***************************************************************************)
\* C27: a consumer that dequeues the sentinel stops.  The decoder, with the
\* sentinel as the very first item and no bytes before it, ends only by
\* dequeuing the sentinel and returning, with nothing put on either queue;
\* the writer never writes the sentinel to the socket.
C27_SentinelStopsConsumer ==
    /\ ( DecoderEnded /\ inbound = << >> ) =>
           /\ parser = "returned"
           /\ ~PillIn(bytes_in_queue)
           /\ xml_in_queue = << >>
           /\ xml_forward_queue = << >>
    /\ ~PillIn(written)

\* The first line of the inbound stream is an element other than the root
\* element: the first start tag is not the root tag.
FirstStartTagNotRoot(lines) == lines # << >> /\ lines[1].kind = "element"

\* C28: if the first start tag of the inbound stream is not the root tag,
\* the decoder treats it as a parse error: it puts nothing on either queue
\* and keep_parsing returns, as it does on a parse error.
C28_NonRootFirstTagEndsDecoder ==
    ( DecoderEnded /\ FirstStartTagNotRoot(inbound) ) =>
        /\ parser = "returned"
        /\ xml_in_queue = << >>
        /\ xml_forward_queue = << >>

(***************************************************************************)
(* The order of the probe and the main MQTT client, checked under          *)
(* SpecRetriever.                                                          *)
(***************************************************************************)
\* C29: the forwarder leaves _check_retained_message, and its main client
\* starts connecting, only once run of the probe has returned; run returns
\* only by _cb_on_disconnect with rc = 0 after client.disconnect(), which is
\* called only in _cb_on_unsubscribe, and the probe unsubscribes only on a
\* message or when a Timer runs out.
C29_MainClientAfterProbe ==
    /\ [] ( ( mqtt_client # "new"
              \/ forwarder \notin { "check_retained_message", "raised" } ) =>
                retriever = "returned" )
    /\ [][ /\ ( retriever # "returned" /\ retriever' = "returned" ) =>
                 retriever = "disconnecting"
           /\ ( retriever # "disconnecting"
                /\ retriever' = "disconnecting" ) =>
                 ( unsubscribing /\ RetrieverConnected )
           /\ ( ~unsubscribing /\ unsubscribing' ) =>
                 \/ messages' = messages + 1
                 \/ timer = "started" /\ timer' = "fired"
                 \/ orphan_timers' = orphan_timers - 1
           /\ mqtt_client # mqtt_client' /\ mqtt_client = "new" =>
                 ( retriever = "returned" /\ mqtt_client' = "connecting" )
         ]_vars

\* The probe got a retained message, unsubscribed, was disconnected and
\* returned it; the main client then connected.
C29_Witness ==
    /\ retriever = "returned"
    /\ messages = 1
    /\ retained_message.present
    /\ timer = "cancelled"
    /\ mqtt_client = "connected"
    /\ is_mqtt_connected

(***************************************************************************)
(* Properties of the replies and of the provenance of a subscribe, checked *)
(* under Spec.                                                             *)
(***************************************************************************)
\* The LastProcessedMessageRequests consumed in this session.
RequestsConsumed ==
    Cardinality({ i \in DOMAIN events :
                      events[i] = "got_last_processed_request" })

\* The last-processed replies sent in this session.
RepliesSent ==
    Cardinality({ i \in DOMAIN Templates : Templates[i] = "last_processed" })

\* A request has been consumed and its reply is not sent yet.
ReplyPending == runner = "running" /\ current_state = "last_processed"

\* C31: in a session the replies sent are as many as the requests consumed,
\* or one fewer exactly while the machine is in last_processed, so that no
\* reply precedes the first request; while a reply is due no inbound element
\* is read; the reply sent echoes the MessageId of the request consumed just
\* before it, not an id kept from before.
C31_ReplyFollowsRequest ==
    /\ [] ( runner # "idle" =>
              /\ RepliesSent <= RequestsConsumed
              /\ RequestsConsumed =
                     RepliesSent + ( IF ReplyPending THEN 1 ELSE 0 ) )
    /\ [][ /\ ( \E state \in DOMAIN ReadingReaction :
                    /\ Reads(ReadingReaction[state])
                    /\ Head(xml_in_queue).tag = ROI_LAST_PROCESSED_NAME ) =>
                 /\ ReplyPending'
                 /\ on_message_id' = Head(xml_in_queue).MessageId
                 /\ UNCHANGED bytes_out_queue
           /\ ReplyPending =>
                 /\ Len(xml_in_queue') >= Len(xml_in_queue)
                 /\ \/ UNCHANGED << on_message_id, bytes_out_queue >>
                    \/ /\ ~ReplyPending'
                       /\ UNCHANGED on_message_id
                       /\ bytes_out_queue' =
                              Append(bytes_out_queue,
                                     Fill("last_processed",
                                          LastProcessedMapping(on_message_id),
                                          message_id_counter))
           /\ RepliesSent' # RepliesSent =>
                 ( ReplyPending \/ bytes_out_queue' = << >> )
         ]_vars

\* In a second session the machine has read a request with MessageId "a"
\* and sent its reply, after a first session that read a request too.
C31_Witness ==
    /\ session = 2
    /\ Occurs("got_last_processed_request", prev_events)
    /\ RequestsConsumed = 1
    /\ RepliesSent = 1
    /\ on_message_id = "a"
    /\ Last(bytes_out_queue).template = "last_processed"
    /\ Last(bytes_out_queue).on_message_id = "a"
    /\ Last(bytes_out_queue).last_processed_message_id = "a"

\* A session recorded in evs reached listening.
ReachedListening(evs) ==
    Occurs("got_resuming_ok", evs) \/ Occurs("got_subscribing_ok", evs)

\* C32: should_resume, true at first, becomes false only by a resume
\* rejected in resuming_response, so that in the first session it is false
\* only after such a rejection; a session that reached listening leaves it
\* true; a subscribe is sent only with should_resume false, hence never in
\* the first session and never in a session that directly follows one which
\* reached listening.
C32_SubscribeProvenance ==
    /\ [] ( /\ ( session <= 1 /\ ~should_resume ) =>
                  Occurs("got_resuming_failed", events)
            /\ ( runner # "idle" /\ Sent("subscribe") ) =>
                  /\ ~should_resume
                  /\ session > 1
                  /\ ~ReachedListening(prev_events)
            /\ ReachedListening(events) => should_resume )
    /\ [][ ( should_resume /\ ~should_resume' ) =>
              /\ Reads("_react_in_resuming_response")
              /\ event' = "got_resuming_failed"
              /\ current_state' = "closing"
         ]_vars

\* The resume of the first session was rejected; the second session was
\* told to subscribe and has sent the subscribe.
C32_Witness ==
    /\ session = 2
    /\ runner # "idle"
    /\ Sent("subscribe")
    /\ Occurs("got_resuming_failed", prev_events)
    /\ Occurs("chose_to_subscribe", events)
    /\ ~should_resume

====
